---- MODULE Spec2Model ----
(***************************************************************************)
(* A model of the EWS wire-format binding: the SOAP body decoder           *)
(* (types/soap/de.rs), the flexible DateTime codec, the tag-dispatched     *)
(* collections, recipient lists, restrictions and messages                 *)
(* (types/common.rs), the response messages of a batch                     *)
(* (types/send_item.rs), the names of the operations                       *)
(* (types/mark_as_read.rs and the other operation files) and the encoding  *)
(* of requests and property paths (types/reply_to_item.rs).                *)
(*                                                                         *)
(* Text is modelled structurally.  An XML name or map key is the sequence  *)
(* of the segments that its `:` characters separate, so the key            *)
(* `@xmlns:m` is <<"@xmlns", "m">> and `m:SendItemResponse` is             *)
(* <<"m", "SendItemResponse">>.  Inputs are well-formed XML: reading a key *)
(* or the string value of an attribute never fails, while decoding an      *)
(* element's content as a typed value may.                                 *)
(***************************************************************************)
EXTENDS Integers, Sequences, FiniteSets, TLC

VARIABLES
    body,       \* soap/de.rs: the entries the MapAccess of <soap:Body> yields
    expected,   \* soap/de.rs: T::name() of the response type being decoded
    pos,        \* soap/de.rs: number of entries the MapAccess has handed out
    value,      \* soap/de.rs: `value` of visit_map, once next_value() returned
    pc,         \* soap/de.rs: position of visit_map in its two loops
    result,     \* soap/de.rs: what visit_map returned
    dtText,     \* common.rs: the string `s` handed to flexible_datetime
    dtPc,       \* common.rs: position in deserialize / serialize_child_nodes
    dtValue,    \* common.rs: the DateTime value, None until there is one
    dtError,    \* common.rs: the error deserialize returned, None if none
    dtOut,      \* common.rs: what serialize_child_nodes wrote or returned
    dtSource,   \* the string first decoded, once its encoding is decoded again
    dtFirst,    \* the value first decoded, once its encoding is decoded again
    colKind,    \* the collection being decoded: Items, Folders, Attachments
                \* (common.rs) or ResponseMessages (send_item.rs)
    colPresent, \* whether the parent element holds the collection's element
    colChildren,\* common.rs: the child elements of the collection element
    colInner,   \* common.rs: `inner`, the elements decoded so far
    colResult,  \* common.rs: what decoding the collection returned
    rcpIn,      \* common.rs: the children of the element handed to
                \* deserialize_recipients
    rcpPc,      \* common.rs: position of the ArrayOfRecipients codec
    rcpResult,  \* common.rs: what deserialize_recipients returned for rcpIn
    rcpList,    \* common.rs: the ArrayOfRecipients value, decoded or constructed
    rcpOut,     \* common.rs: the child nodes serialize_child_nodes wrote
    rcpBack,    \* common.rs: what deserialize_recipients returned for rcpOut
    resStack,   \* common.rs: the Restrictions the caller has built and holds
    resPc,      \* common.rs: position of the caller building a Restriction
    resOut,     \* common.rs: the child nodes written for the Restriction
    opType,     \* the operation type T of a request, by its type name
    opNames,    \* T::name(), T::Response and T::Response::name()
    msg,        \* common.rs: a Message value, field by field
    msgPc,      \* common.rs: position of the caller holding the Message
    msgAnswers, \* common.rs: what the three has_*_attachments methods returned
    encType,    \* the type of the value handed to XmlSerialize
    encValue,   \* the value handed to XmlSerialize, field by field
    encPc,      \* position of the caller encoding encValue
    encOut      \* the element XmlSerialize wrote for encValue

envVars == <<body, expected, pos, value, pc, result>>

dtVars == <<dtText, dtPc, dtValue, dtError, dtOut, dtSource, dtFirst>>

colVars == <<colKind, colPresent, colChildren, colInner, colResult>>

rcpVars == <<rcpIn, rcpPc, rcpResult, rcpList, rcpOut, rcpBack>>

resVars == <<resStack, resPc, resOut>>

opVars == <<opType, opNames>>

msgVars == <<msg, msgPc, msgAnswers>>

encVars == <<encType, encValue, encPc, encOut>>

vars == <<body, expected, pos, value, pc, result,
          dtText, dtPc, dtValue, dtError, dtOut, dtSource, dtFirst,
          colKind, colPresent, colChildren, colInner, colResult,
          rcpIn, rcpPc, rcpResult, rcpList, rcpOut, rcpBack,
          resStack, resPc, resOut, opType, opNames,
          msg, msgPc, msgAnswers, encType, encValue, encPc, encOut>>

\* The state that decoding an envelope leaves alone.
notEnvelope == <<dtVars, colVars, rcpVars, resVars, opVars, msgVars, encVars>>

\* The state that the DateTime codec leaves alone.
notDateTime == <<envVars, colVars, rcpVars, resVars, opVars, msgVars, encVars>>

\* The state that decoding a collection leaves alone.
notCollection == <<envVars, dtVars, rcpVars, resVars, opVars, msgVars, encVars>>

\* The state that the ArrayOfRecipients codec leaves alone.
notRecipients == <<envVars, dtVars, colVars, resVars, opVars, msgVars, encVars>>

\* The state that naming an operation leaves alone.
notOperation == <<envVars, dtVars, colVars, rcpVars, resVars, msgVars, encVars>>

\* The state that building and encoding a Restriction leaves alone.
notRestriction == <<envVars, dtVars, colVars, rcpVars, opVars, msgVars, encVars>>

\* The state that building and asking a Message leaves alone.
notMessage == <<envVars, dtVars, colVars, rcpVars, resVars, opVars, encVars>>

\* The state that encoding a request or a property path leaves alone.
notEncoding == <<envVars, dtVars, colVars, rcpVars, resVars, opVars, msgVars>>

\* Option<T>: None, or Some(x).
None == <<>>

Some(x) == <<x>>

-----------------------------------------------------------------------------
(* Bounds *)

MaxBody == 3

MaxItems == 2

MaxAttachments == 2

MaxFolders == 2

MaxRecipients == 2

MaxMessages == 2

\* The IsEqualTo and Exists restrictions of one tree, and its And and Or
\* restrictions.
MaxLeaves == 3

MaxCompounds == 2

-----------------------------------------------------------------------------
(* Envelope body decoding: src/src/types/soap/de.rs *)

\* The names returned by EnvelopeBodyContents::name() for response types.
ResponseNames == {"SendItemResponse", "FindItemResponse"}

\* Content of an element that does not decode as the response type.
Malformed == "malformed"

\* Content of an element that decodes as the response type, named by the
\* value it decodes to.
Payloads == {"p1", "p2"}

NoValue == "none"

\* Keys of namespace declarations on the body element.
NamespaceKeys == {<<"@xmlns", "m">>, <<"@xmlns", "t">>}

\* Other keys: child elements with and without prefixes, a name that differs
\* in letter case only, and attributes of the body that declare no prefix:
\* the default-namespace declaration and an attribute that has the name of
\* a response.  The key of an attribute is `@` and the attribute's name.
ElementKeys ==
    { <<"SendItemResponse">>, <<"m", "SendItemResponse">>,
      <<"a", "m", "SendItemResponse">>, <<"m", "senditemresponse">>,
      <<"m", "FindItemResponse">>, <<"@xmlns">>, <<"@SendItemResponse">> }

\* The keys whose content comes in every form.
VariedKeys == {<<"m", "SendItemResponse">>, <<"m", "FindItemResponse">>}

BodyEntries ==
    [key : NamespaceKeys, val : {"uri"}]
        \cup [key : ElementKeys, val : {"p1"}]
        \cup [key : VariedKeys, val : Payloads \cup {Malformed}]

RECURSIVE SeqsUpTo(_, _)
SeqsUpTo(S, n) ==
    IF n = 0 THEN {<<>>}
    ELSE LET shorter == SeqsUpTo(S, n - 1)
         IN  shorter \cup {Append(q, x) : q \in {r \in shorter : Len(r) = n - 1}, x \in S}

Bodies == SeqsUpTo(BodyEntries, MaxBody)

\* As StartsWithXmlns, but without the `:` of the prefix.
StartsWithXmlnsLoose(key) == key[1] = "@xmlns"

\* key.starts_with("@xmlns:")
StartsWithXmlns(key) == Len(key) >= 2 /\ key[1] = "@xmlns"

\* As CleanName, but keeping the text before the first `:`.
CleanNameFirst(name) == name[1]

\* name.split(':').last().unwrap_or(&name)
CleanName(name) == name[Len(name)]

Ok(v) == [kind |-> "Ok", value |-> v, found |-> <<>>, expected |-> ""]

\* Error::custom("unknown element `{name}`, expected {expected}")
UnknownElementError(name, exp) ==
    [kind |-> "unknown element", value |-> NoValue, found |-> name, expected |-> exp]

\* Error::custom("unexpected element `{key}`")
UnexpectedElementError(key) ==
    [kind |-> "unexpected element", value |-> NoValue, found |-> key, expected |-> ""]

\* Error::invalid_type(Unexpected::Map, &self)
InvalidTypeError ==
    [kind |-> "invalid type", value |-> NoValue, found |-> <<>>, expected |-> ""]

\* The error T's own Deserialize returns through `map.next_value()?`.
ValueError ==
    [kind |-> "value error", value |-> NoValue, found |-> <<>>, expected |-> ""]

NoResult == [kind |-> "pending", value |-> NoValue, found |-> <<>>, expected |-> ""]

\* No envelope is being decoded.
EnvIdle ==
    /\ body = <<>>
    /\ expected = ""
    /\ pos = 0
    /\ value = NoValue
    /\ pc = "idle"
    /\ result = NoResult

EnvInit ==
    /\ body \in Bodies
    /\ expected \in ResponseNames
    /\ pos = 0
    /\ value = NoValue
    /\ pc = "leading"
    /\ result = NoResult

\* First loop, `Some(key) if key.starts_with("@xmlns:")`: consume the value.
SkipLeadingNamespace ==
    /\ pc = "leading"
    /\ pos < Len(body)
    /\ StartsWithXmlns(body[pos + 1].key)
    /\ pos' = pos + 1
    /\ UNCHANGED <<body, expected, value, pc, result>>
    /\ UNCHANGED notEnvelope

\* As UnknownElement, but going on to the next key.
UnknownElementSkipped ==
    /\ pc = "leading"
    /\ pos < Len(body)
    /\ ~StartsWithXmlns(body[pos + 1].key)
    /\ CleanName(body[pos + 1].key) # expected
    /\ pos' = pos + 1
    /\ UNCHANGED <<body, expected, value, pc, result>>
    /\ UNCHANGED notEnvelope

\* First loop, `Some(name)` whose clean name is not the expected one.
UnknownElement ==
    /\ pc = "leading"
    /\ pos < Len(body)
    /\ ~StartsWithXmlns(body[pos + 1].key)
    /\ CleanName(body[pos + 1].key) # expected
    /\ result' = UnknownElementError(body[pos + 1].key, expected)
    /\ pc' = "done"
    /\ pos' = pos + 1
    /\ UNCHANGED <<body, expected, value>>
    /\ UNCHANGED notEnvelope

\* First loop, `Some(name)` with the expected name: map.next_value() is Ok.
TakeValue ==
    /\ pc = "leading"
    /\ pos < Len(body)
    /\ ~StartsWithXmlns(body[pos + 1].key)
    /\ CleanName(body[pos + 1].key) = expected
    /\ body[pos + 1].val # Malformed
    /\ value' = body[pos + 1].val
    /\ pc' = "trailing"
    /\ pos' = pos + 1
    /\ UNCHANGED <<body, expected, result>>
    /\ UNCHANGED notEnvelope

\* First loop, `Some(name)` with the expected name: map.next_value()? is Err.
ValueFails ==
    /\ pc = "leading"
    /\ pos < Len(body)
    /\ ~StartsWithXmlns(body[pos + 1].key)
    /\ CleanName(body[pos + 1].key) = expected
    /\ body[pos + 1].val = Malformed
    /\ result' = ValueError
    /\ pc' = "done"
    /\ pos' = pos + 1
    /\ UNCHANGED <<body, expected, value>>
    /\ UNCHANGED notEnvelope

\* As NoElement, but returning a default response.
NoElementDefault ==
    /\ pc = "leading"
    /\ pos = Len(body)
    /\ result' = Ok(NoValue)
    /\ pc' = "done"
    /\ UNCHANGED <<body, expected, pos, value>>
    /\ UNCHANGED notEnvelope

\* First loop, `None`.
NoElement ==
    /\ pc = "leading"
    /\ pos = Len(body)
    /\ result' = InvalidTypeError
    /\ pc' = "done"
    /\ UNCHANGED <<body, expected, pos, value>>
    /\ UNCHANGED notEnvelope

\* As SkipTrailingNamespace, but taking the declaration for an element.
TrailingNamespaceUnexpected ==
    /\ pc = "trailing"
    /\ pos < Len(body)
    /\ StartsWithXmlns(body[pos + 1].key)
    /\ result' = UnexpectedElementError(body[pos + 1].key)
    /\ pc' = "done"
    /\ pos' = pos + 1
    /\ UNCHANGED <<body, expected, value>>
    /\ UNCHANGED notEnvelope

\* Second loop, a namespace declaration: consume the value.
SkipTrailingNamespace ==
    /\ pc = "trailing"
    /\ pos < Len(body)
    /\ StartsWithXmlns(body[pos + 1].key)
    /\ pos' = pos + 1
    /\ UNCHANGED <<body, expected, value, pc, result>>
    /\ UNCHANGED notEnvelope

\* As UnexpectedElement, but ignoring the key.
UnexpectedElementIgnored ==
    /\ pc = "trailing"
    /\ pos < Len(body)
    /\ ~StartsWithXmlns(body[pos + 1].key)
    /\ pos' = pos + 1
    /\ UNCHANGED <<body, expected, value, pc, result>>
    /\ UNCHANGED notEnvelope

\* Second loop, any other key.
UnexpectedElement ==
    /\ pc = "trailing"
    /\ pos < Len(body)
    /\ ~StartsWithXmlns(body[pos + 1].key)
    /\ result' = UnexpectedElementError(body[pos + 1].key)
    /\ pc' = "done"
    /\ pos' = pos + 1
    /\ UNCHANGED <<body, expected, value>>
    /\ UNCHANGED notEnvelope

\* Second loop exhausted: `return Ok(value)`.
ReturnValue ==
    /\ pc = "trailing"
    /\ pos = Len(body)
    /\ result' = Ok(value)
    /\ pc' = "done"
    /\ UNCHANGED <<body, expected, pos, value>>
    /\ UNCHANGED notEnvelope

EnvNext ==
    \/ SkipLeadingNamespace
    \/ UnknownElement
    \/ TakeValue
    \/ ValueFails
    \/ NoElement
    \/ SkipTrailingNamespace
    \/ UnexpectedElement
    \/ ReturnValue

-----------------------------------------------------------------------------
(* Properties of envelope body decoding *)

\* A key that is a namespace declaration: it begins with `@xmlns:`.
IsNamespaceDeclaration(key) == Len(key) > 1 /\ key[1] = "@xmlns"

\* What is left of a key after removing everything up to its last `:`.
LocalName(key) == key[Len(key)]

\* The positions of the body's keys that are not namespace declarations.
Substantive(b) == {i \in 1..Len(b) : ~IsNamespaceDeclaration(b[i].key)}

FirstSubstantive(b) == CHOOSE i \in Substantive(b) : \A j \in Substantive(b) : i <= j

\* The first substantive key has the expected local name and every later key
\* is a namespace declaration.
SingleExpectedElement ==
    /\ Substantive(body) # {}
    /\ LocalName(body[FirstSubstantive(body)].key) = expected
    /\ Substantive(body) = {FirstSubstantive(body)}

\* C1 as stated: whenever the first substantive key has the expected local
\* name and every later key is a namespace declaration, decoding succeeds.
C1_AsStated ==
    (pc = "done" /\ SingleExpectedElement) => result.kind = "Ok"

\* C1, amended: whenever the first substantive key has the expected local name,
\* every later key is a namespace declaration and the element's content
\* decodes as the response type, decoding succeeds and returns the value the
\* content decodes to, whatever prefix the key carries.
C1_MatchingElementDecodes ==
    (/\ pc = "done"
     /\ SingleExpectedElement
     /\ body[FirstSubstantive(body)].val \in Payloads)
        => result = Ok(body[FirstSubstantive(body)].val)

C1_Witness ==
    /\ pc = "done"
    /\ Len(body) = 3
    /\ SingleExpectedElement
    /\ FirstSubstantive(body) = 2
    /\ Len(body[2].key) = 3
    /\ result = Ok("p1")

\* C2: when the first substantive key has a local name other than the
\* expected one, decoding fails with the unknown-element error carrying the
\* found key and the expected name, the decoder has read no key beyond it and
\* no response value exists.
C2_MismatchIsUnknownElement ==
    (/\ pc = "done"
     /\ Substantive(body) # {}
     /\ LocalName(body[FirstSubstantive(body)].key) # expected)
        => /\ result = UnknownElementError(body[FirstSubstantive(body)].key, expected)
           /\ pos = FirstSubstantive(body)
           /\ value = NoValue

C2_Witness ==
    /\ pc = "done"
    /\ Len(body) = 3
    /\ expected = "SendItemResponse"
    /\ body[1].key = <<"@xmlns", "m">>
    /\ body[2].key = <<"m", "senditemresponse">>
    /\ body[3] = [key |-> <<"m", "SendItemResponse">>, val |-> "p1"]
    /\ result.kind = "unknown element"

\* The matching element was consumed: it is the first substantive key, it has
\* the expected name and its content decoded.
ElementConsumed ==
    /\ Substantive(body) # {}
    /\ LocalName(body[FirstSubstantive(body)].key) = expected
    /\ body[FirstSubstantive(body)].val \in Payloads

\* The positions of the substantive keys after the first one.
LaterSubstantive(b) == Substantive(b) \ {FirstSubstantive(b)}

\* C3: once the matching element has been consumed, a further substantive key
\* makes decoding fail with the unexpected-element error naming the first such
\* key; so a successful decode means the body held one substantive child.
C3_SecondElementIsUnexpected ==
    /\ (pc = "done" /\ ElementConsumed /\ LaterSubstantive(body) # {})
          => \E j \in LaterSubstantive(body) :
                /\ \A k \in LaterSubstantive(body) : j <= k
                /\ result = UnexpectedElementError(body[j].key)
    /\ (pc = "done" /\ result.kind = "Ok") => Cardinality(Substantive(body)) = 1

C3_Witness ==
    /\ pc = "done"
    /\ Len(body) = 3
    /\ expected = "SendItemResponse"
    /\ body[1] = [key |-> <<"SendItemResponse">>, val |-> "p1"]
    /\ body[2].key = <<"@xmlns", "t">>
    /\ body[3] = [key |-> <<"m", "SendItemResponse">>, val |-> "p2"]
    /\ result = UnexpectedElementError(<<"m", "SendItemResponse">>)

\* C4: a body with no key, or with namespace declarations only, fails with
\* the invalid-type error and yields no value.
C4_NoElementIsInvalidType ==
    (pc = "done" /\ Substantive(body) = {})
        => result = InvalidTypeError /\ value = NoValue

C4_Witness ==
    /\ pc = "done"
    /\ Len(body) = 2
    /\ Substantive(body) = {}
    /\ body[1].key # body[2].key
    /\ result.kind = "invalid type"

\* The entries of the body that are left when every namespace declaration
\* is removed, in their order.
DeclarationsRemoved(b) == SelectSeq(b, LAMBDA e : ~IsNamespaceDeclaration(e.key))

\* What decoding gives for a body without namespace declarations.
OutcomeWithoutDeclarations(b, exp) ==
    IF b = <<>> THEN InvalidTypeError
    ELSE IF LocalName(b[1].key) # exp THEN UnknownElementError(b[1].key, exp)
    ELSE IF b[1].val \notin Payloads THEN ValueError
    ELSE IF Len(b) > 1 THEN UnexpectedElementError(b[2].key)
    ELSE Ok(b[1].val)

\* C25: the result of decoding a body is the result for the same body with
\* every `@xmlns:` key removed, wherever the keys stand and however many
\* they are: neither success nor the value returned depends on them; a
\* decoding that succeeds has consumed every one of them.
C25_DeclarationsChangeNothing ==
    pc = "done"
        => /\ result = OutcomeWithoutDeclarations(DeclarationsRemoved(body), expected)
           /\ result.kind = "Ok" => pos = Len(body)

C25_Witness ==
    /\ pc = "done"
    /\ Len(body) = 3
    /\ body[1].key = <<"@xmlns", "m">>
    /\ body[2] = [key |-> <<"m", "SendItemResponse">>, val |-> "p2"]
    /\ body[3].key = <<"@xmlns", "t">>
    /\ pos = 3
    /\ result = Ok("p2")

\* The keys of attributes of the body that are not `@xmlns:` keys.
OtherAttributeKeys == {<<"@xmlns">>, <<"@SendItemResponse">>}

\* C26: a key of an attribute that does not begin with `@xmlns:`, the
\* default-namespace declaration `@xmlns` among them, is not skipped: when
\* it comes before the response element, decoding stops at it with the
\* unknown-element error that names it, and no value is decoded.
C26_OnlyPrefixedDeclarationsSkipped ==
    (/\ pc = "done"
     /\ Substantive(body) # {}
     /\ body[FirstSubstantive(body)].key \in OtherAttributeKeys)
        => /\ result = UnknownElementError(body[FirstSubstantive(body)].key, expected)
           /\ pos = FirstSubstantive(body)
           /\ value = NoValue

C26_Witness ==
    /\ pc = "done"
    /\ expected = "SendItemResponse"
    /\ Len(body) = 3
    /\ body[1].key = <<"@xmlns", "m">>
    /\ body[2].key = <<"@xmlns">>
    /\ body[3] = [key |-> <<"m", "SendItemResponse">>, val |-> "p1"]
    /\ result = UnknownElementError(<<"@xmlns">>, "SendItemResponse")

-----------------------------------------------------------------------------
(* DateTime: src/ews/src/types/common.rs, flexible_datetime::deserialize   *)
(* and XmlSerialize for DateTime.                                          *)
(*                                                                         *)
(* A timestamp string is the record of its parts as written: y-mo-d, the   *)
(* designator between date and time, h:mi:s, the digits of the fraction    *)
(* (<<>> when there is none), the offset (<<>> when there is none, <<"Z">> *)
(* or <<sign, hours, minutes>>) and whatever follows.  Iso8601::DEFAULT of *)
(* the `time` crate is modelled by what it accepts and what it writes.     *)

Years == {2024, 2025}

Months == {2, 12, 13}

Days == {29, 31}

Designators == {"T", " "}

Hours == {7, 23}

Fractions == {<<>>, <<5>>}

Offsets == {<<>>, <<"Z">>, <<"+", 5, 30>>, <<"-", 8, 0>>, <<"+", 26, 0>>}

Tails == {"", " UTC"}

Texts ==
    [y : Years, mo : Months, d : Days, designator : Designators, h : Hours,
     mi : {30}, s : {59}, fraction : Fractions, offset : Offsets, tail : Tails]

\* The OffsetDateTime values a caller builds directly: DateTime's field is
\* public.  The offset is in seconds.
ConstructedValues ==
    [year : {-1, 2024}, month : {12}, day : {31}, hour : {23}, minute : {30},
     second : {59}, nanosecond : {0, 120000000},
     offset : {0, 19800, -28800, 19815}]

RECURSIVE Pow10(_)
Pow10(n) == IF n = 0 THEN 1 ELSE 10 * Pow10(n - 1)

IsLeapYear(y) == y % 4 = 0 /\ (y % 100 # 0 \/ y % 400 = 0)

DaysInMonth(y, m) ==
    IF m = 2 THEN (IF IsLeapYear(y) THEN 29 ELSE 28)
    ELSE IF m \in {4, 6, 9, 11} THEN 30 ELSE 31

\* The nanoseconds a written fraction stands for.
RECURSIVE FractionNanos(_)
FractionNanos(digits) ==
    IF digits = <<>> THEN 0
    ELSE digits[1] * Pow10(9 - 1) + FractionNanos(Tail(digits)) \div 10

\* The nine digits Iso8601::DEFAULT writes for the subsecond part.
FractionDigits(ns) == [i \in 1..9 |-> (ns \div Pow10(9 - i)) % 10]

\* The seconds a written offset stands for.
OffsetSeconds(off) ==
    IF off = <<"Z">> THEN 0
    ELSE (IF off[1] = "-" THEN -1 ELSE 1) * (off[2] * 3600 + off[3] * 60)

\* Iso8601::parse_into: the date is read, then the time (after `T`), then the
\* offset; the whole input must have been consumed.
DateParsed(t) == t.mo \in 1..12 /\ t.d \in 1..31

TimeParsed(t) ==
    /\ DateParsed(t)
    /\ t.designator = "T"
    /\ t.h \in 0..23 /\ t.mi \in 0..59 /\ t.s \in 0..59

OffsetParsed(t) ==
    /\ TimeParsed(t)
    /\ t.offset # <<>>
    /\ t.offset = <<"Z">> \/ (t.offset[2] <= 25 /\ t.offset[3] <= 59)

InputConsumed(t) ==
    /\ TimeParsed(t)
    /\ t.offset = <<>> \/ OffsetParsed(t)
    /\ t.tail = ""

\* The date and time of day as written: a PrimitiveDateTime.
PrimitiveOf(t) ==
    [year |-> t.y, month |-> t.mo, day |-> t.d, hour |-> t.h, minute |-> t.mi,
     second |-> t.s, nanosecond |-> FractionNanos(t.fraction)]

\* pdt.assume_offset(off), an OffsetDateTime.
AssumeOffset(pdt, off) ==
    [year |-> pdt.year, month |-> pdt.month, day |-> pdt.day, hour |-> pdt.hour,
     minute |-> pdt.minute, second |-> pdt.second,
     nanosecond |-> pdt.nanosecond, offset |-> off]

\* As OffsetDateTimeParse, but dropping the offset that was written.
OffsetDateTimeParseNoOffset(t) ==
    IF InputConsumed(t) /\ OffsetParsed(t) /\ t.d <= DaysInMonth(t.y, t.mo)
    THEN Some(AssumeOffset(PrimitiveOf(t), 0))
    ELSE None

\* time::OffsetDateTime::parse(&s, &Iso8601::DEFAULT): date, time and offset
\* are all needed.
OffsetDateTimeParse(t) ==
    IF InputConsumed(t) /\ OffsetParsed(t) /\ t.d <= DaysInMonth(t.y, t.mo)
    THEN Some(AssumeOffset(PrimitiveOf(t), OffsetSeconds(t.offset)))
    ELSE None

\* time::PrimitiveDateTime::parse(&s, &Iso8601::DEFAULT): date and time are
\* needed, an offset that was parsed is not used.
PrimitiveDateTimeParse(t) ==
    IF InputConsumed(t) /\ t.d <= DaysInMonth(t.y, t.mo)
    THEN Some(PrimitiveOf(t))
    ELSE None

\* pdt.assume_utc()
AssumeUtc(pdt) == AssumeOffset(pdt, 0)

\* "Unable to parse datetime '{s}'. Expected ISO8601 format with or without
\* timezone."
ParseError(s) ==
    [message |-> "Unable to parse datetime", text |-> s,
     expected |-> "ISO8601 format with or without timezone"]

Abs(n) == IF n < 0 THEN -n ELSE n

\* The offset Iso8601::DEFAULT writes: `Z` for UTC, sign, hours and minutes
\* otherwise.
FormatOffset(off) ==
    IF off = 0 THEN <<"Z">>
    ELSE <<IF off < 0 THEN "-" ELSE "+", Abs(off) \div 3600, (Abs(off) % 3600) \div 60>>

\* The formatter's errors: a year outside 0..9999, an offset with seconds.
FormatFails(v) == v.year \notin 0..9999 \/ Abs(v.offset) % 60 # 0

Written(t) == [kind |-> "Ok", text |-> Some(t)]

FormatError == [kind |-> "Err", text |-> None]

NotWritten == [kind |-> "pending", text |-> None]

\* As Iso8601Format, but with second precision: no fraction is written.
Iso8601FormatSeconds(v) ==
    IF FormatFails(v) THEN FormatError
    ELSE Written([y |-> v.year, mo |-> v.month, d |-> v.day, designator |-> "T",
                  h |-> v.hour, mi |-> v.minute, s |-> v.second,
                  fraction |-> <<>>,
                  offset |-> FormatOffset(v.offset), tail |-> ""])

\* As Iso8601Format, but leaving the offset out for UTC.
Iso8601FormatBareUtc(v) ==
    IF FormatFails(v) THEN FormatError
    ELSE Written([y |-> v.year, mo |-> v.month, d |-> v.day, designator |-> "T",
                  h |-> v.hour, mi |-> v.minute, s |-> v.second,
                  fraction |-> FractionDigits(v.nanosecond),
                  offset |-> IF v.offset = 0 THEN <<>> ELSE FormatOffset(v.offset),
                  tail |-> ""])

\* self.0.format(&Iso8601::DEFAULT), then the text written as a child node.
Iso8601Format(v) ==
    IF FormatFails(v) THEN FormatError
    ELSE Written([y |-> v.year, mo |-> v.month, d |-> v.day, designator |-> "T",
                  h |-> v.hour, mi |-> v.minute, s |-> v.second,
                  fraction |-> FractionDigits(v.nanosecond),
                  offset |-> FormatOffset(v.offset), tail |-> ""])

\* No DateTime is being decoded or encoded.
DtIdle ==
    /\ dtText = None
    /\ dtPc = "idle"
    /\ dtValue = None
    /\ dtError = None
    /\ dtOut = NotWritten
    /\ dtSource = None
    /\ dtFirst = None

\* A string arrives to be decoded, or a caller holds a value to encode.
DtInit ==
    /\ dtError = None
    /\ dtOut = NotWritten
    /\ dtSource = None
    /\ dtFirst = None
    /\ \/ /\ dtText \in {Some(t) : t \in Texts}
          /\ dtPc = "offset_parse"
          /\ dtValue = None
       \/ /\ dtText = None
          /\ dtPc = "value"
          /\ dtValue \in {Some(v) : v \in ConstructedValues}

\* `if let Ok(dt) = OffsetDateTime::parse(..) { return Ok(dt) }`
ParseWithOffset ==
    /\ dtPc = "offset_parse"
    /\ OffsetDateTimeParse(dtText[1]) # None
    /\ dtValue' = OffsetDateTimeParse(dtText[1])
    /\ dtPc' = "value"
    /\ UNCHANGED <<dtText, dtError, dtOut, dtSource, dtFirst>>
    /\ UNCHANGED notDateTime

\* The first parse is an Err: go on to the second.
OffsetParseFails ==
    /\ dtPc = "offset_parse"
    /\ OffsetDateTimeParse(dtText[1]) = None
    /\ dtPc' = "primitive_parse"
    /\ UNCHANGED <<dtText, dtValue, dtError, dtOut, dtSource, dtFirst>>
    /\ UNCHANGED notDateTime

\* `if let Ok(pdt) = PrimitiveDateTime::parse(..) { return Ok(pdt.assume_utc()) }`
ParseWithoutOffset ==
    /\ dtPc = "primitive_parse"
    /\ PrimitiveDateTimeParse(dtText[1]) # None
    /\ dtValue' = Some(AssumeUtc(PrimitiveDateTimeParse(dtText[1])[1]))
    /\ dtPc' = "value"
    /\ UNCHANGED <<dtText, dtError, dtOut, dtSource, dtFirst>>
    /\ UNCHANGED notDateTime

\* As ParseFails, but putting the Unix epoch in place of the value.
ParseFailsToEpoch ==
    /\ dtPc = "primitive_parse"
    /\ PrimitiveDateTimeParse(dtText[1]) = None
    /\ dtValue' = Some([year |-> 1970, month |-> 1, day |-> 1, hour |-> 0,
                        minute |-> 0, second |-> 0, nanosecond |-> 0, offset |-> 0])
    /\ dtPc' = "value"
    /\ UNCHANGED <<dtText, dtError, dtOut, dtSource, dtFirst>>
    /\ UNCHANGED notDateTime

\* As ParseFails, but leaving the error in a slot that the envelope decoder
\* returns from as well.
ParseFailsSharedError ==
    /\ dtPc = "primitive_parse"
    /\ PrimitiveDateTimeParse(dtText[1]) = None
    /\ dtError' = Some(ParseError(dtText[1]))
    /\ dtPc' = "failed"
    /\ result' = ValueError
    /\ UNCHANGED <<dtText, dtValue, dtOut, dtSource, dtFirst>>
    /\ UNCHANGED <<body, expected, pos, value, pc>>
    /\ UNCHANGED <<colVars, rcpVars, resVars, opVars, msgVars, encVars>>

\* Both parses are Err: `Err(Error::custom(..))`.
ParseFails ==
    /\ dtPc = "primitive_parse"
    /\ PrimitiveDateTimeParse(dtText[1]) = None
    /\ dtError' = Some(ParseError(dtText[1]))
    /\ dtPc' = "failed"
    /\ UNCHANGED <<dtText, dtValue, dtOut, dtSource, dtFirst>>
    /\ UNCHANGED notDateTime

\* XmlSerialize::serialize_child_nodes for DateTime, into an in-memory writer.
SerializeDateTime ==
    /\ dtPc = "value"
    /\ dtOut' = Iso8601Format(dtValue[1])
    /\ dtPc' = "serialized"
    /\ UNCHANGED <<dtText, dtValue, dtError, dtSource, dtFirst>>
    /\ UNCHANGED notDateTime

\* The text just written is decoded in its turn.
DecodeSerialized ==
    /\ dtPc = "serialized"
    /\ dtOut.kind = "Ok"
    /\ dtFirst = None
    /\ dtSource' = dtText
    /\ dtFirst' = dtValue
    /\ dtText' = dtOut.text
    /\ dtValue' = None
    /\ dtPc' = "offset_parse"
    /\ UNCHANGED <<dtError, dtOut>>
    /\ UNCHANGED notDateTime

DtNext ==
    \/ ParseWithOffset
    \/ OffsetParseFails
    \/ ParseWithoutOffset
    \/ ParseFails
    \/ SerializeDateTime
    \/ DecodeSerialized

-----------------------------------------------------------------------------
(* Properties of the DateTime codec *)

ValidCalendarDate(t) == t.mo \in 1..12 /\ t.d \in 1..DaysInMonth(t.y, t.mo)

ValidTimeOfDay(t) == t.h < 24 /\ t.mi < 60 /\ t.s < 60

ValidOffset(off) == off = <<"Z">> \/ (off[2] < 26 /\ off[3] < 60)

\* The offset-less ISO-8601 form: date, `T`, time.
IsOffsetLess(t) ==
    /\ ValidCalendarDate(t) /\ t.designator = "T" /\ ValidTimeOfDay(t)
    /\ t.offset = <<>> /\ t.tail = ""

\* The offset-aware ISO-8601 form: date, `T`, time, offset.
IsOffsetAware(t) ==
    /\ ValidCalendarDate(t) /\ t.designator = "T" /\ ValidTimeOfDay(t)
    /\ t.offset # <<>> /\ ValidOffset(t.offset) /\ t.tail = ""

\* The value whose date and time-of-day fields are those written in t, at
\* the offset off (in seconds).
AsWritten(t, off) ==
    [year |-> t.y, month |-> t.mo, day |-> t.d, hour |-> t.h, minute |-> t.mi,
     second |-> t.s, nanosecond |-> FractionNanos(t.fraction), offset |-> off]

WrittenOffset(t) ==
    IF t.offset = <<"Z">> THEN 0
    ELSE IF t.offset[1] = "+" THEN t.offset[2] * 3600 + t.offset[3] * 60
    ELSE 0 - (t.offset[2] * 3600 + t.offset[3] * 60)

\* Days from 1970-01-01 to the civil date y-m-d.
DaysFromCivil(y, m, d) ==
    LET yy == IF m <= 2 THEN y - 1 ELSE y
        era == yy \div 400
        yoe == yy - era * 400
        mp == IF m > 2 THEN m - 3 ELSE m + 9
        doy == (153 * mp + 2) \div 5 + d - 1
        doe == yoe * 365 + yoe \div 4 - yoe \div 100 + doy
    IN  era * 146097 + doe - 719468

\* The instant of a value: UTC day, second of that day, nanosecond.  Two
\* OffsetDateTime values are equal when their instants are.
Instant(v) ==
    LET local == v.hour * 3600 + v.minute * 60 + v.second - v.offset
    IN  <<DaysFromCivil(v.year, v.month, v.day) + local \div 86400,
          local % 86400, v.nanosecond>>

\* A string was decoded to a value (which may have been encoded since).
Decoded == dtText # None /\ dtPc \in {"value", "serialized"}

\* C5: the offset-less parse is attempted only when the offset-aware one has
\* failed; a string in the offset-aware form decodes to the fields as written
\* at the written offset, one in the offset-less form to the fields as written
\* at offset zero.
C5_OffsetAwareFirstThenUtc ==
    /\ dtPc = "primitive_parse" => ~IsOffsetAware(dtText[1])
    /\ (Decoded /\ IsOffsetAware(dtText[1]))
          => dtValue = Some(AsWritten(dtText[1], WrittenOffset(dtText[1])))
    /\ (Decoded /\ IsOffsetLess(dtText[1]))
          => dtValue = Some(AsWritten(dtText[1], 0))

C5_Witness ==
    /\ dtPc = "value"
    /\ dtSource = None
    /\ dtText # None
    /\ dtText[1].offset = <<>>
    /\ dtText[1].fraction = <<5>>
    /\ dtValue # None
    /\ dtValue[1].offset = 0
    /\ dtValue[1].hour = 23

\* The string first decoded was in the offset-less form and its encoding is
\* being decoded, or has been.
Reencoded == dtSource # None /\ IsOffsetLess(dtSource[1])

\* C6: the value decoded from an offset-less string encodes to a string in
\* the offset-aware form, and that string decodes to the same instant.
C6_OffsetLessRoundTrip ==
    /\ (dtPc = "serialized" /\ dtText # None /\ IsOffsetLess(dtText[1]))
          => /\ dtOut.kind = "Ok"
             /\ IsOffsetAware(dtOut.text[1])
    /\ Reencoded => dtPc \in {"offset_parse", "value", "serialized"}
    /\ (Reencoded /\ dtPc \in {"value", "serialized"})
          => Instant(dtValue[1]) = Instant(dtFirst[1])

C6_Witness ==
    /\ Reencoded
    /\ dtPc = "value"
    /\ dtSource[1].fraction = <<5>>
    /\ dtText[1].offset = <<"Z">>
    /\ Instant(dtValue[1]) = Instant(dtFirst[1])

\* C7: a DateTime value, decoded or built by the caller, is written in the
\* offset-aware form with the fields and offset of the value; no text is
\* written only when the formatter rejects the value.
C7_EncodeIsOffsetAware ==
    dtPc = "serialized"
        => /\ dtOut.kind \in {"Ok", "Err"}
           /\ dtOut.kind = "Ok"
                 => /\ IsOffsetAware(dtOut.text[1])
                    /\ AsWritten(dtOut.text[1], WrittenOffset(dtOut.text[1])) = dtValue[1]
           /\ dtOut.kind = "Err"
                 => (dtValue[1].year \notin 0..9999 \/ dtValue[1].offset % 60 # 0)

C7_Witness ==
    /\ dtPc = "serialized"
    /\ dtSource = None
    /\ dtText # None
    /\ dtText[1].offset = <<>>
    /\ dtOut.kind = "Ok"
    /\ dtOut.text[1].offset = <<"Z">>

\* C8: a string in neither form yields the parse error that carries the
\* string and names the expected formats, and no value.
C8_NeitherFormIsParseError ==
    (/\ dtText # None
     /\ ~IsOffsetAware(dtText[1])
     /\ ~IsOffsetLess(dtText[1])
     /\ dtPc \notin {"offset_parse", "primitive_parse"})
        => /\ dtPc = "failed"
           /\ dtError = Some([message |-> "Unable to parse datetime",
                              text |-> dtText[1],
                              expected |-> "ISO8601 format with or without timezone"])
           /\ dtValue = None
           /\ dtOut = NotWritten

C8_Witness ==
    /\ dtPc = "failed"
    /\ dtText[1].mo = 2
    /\ dtText[1].d = 29
    /\ dtText[1].y = 2025
    /\ dtText[1].designator = "T"
    /\ dtText[1].tail = ""
    /\ dtText[1].offset = <<>>
    /\ dtError # None

-----------------------------------------------------------------------------
(* Collections: src/ews/src/types/common.rs, Items with RealItem, Folders  *)
(* with Folder and Attachments with Attachment; src/src/types/send_item.rs,*)
(* ResponseMessages with SendItemResponseMessage.  The element of the      *)
(* collection may be missing from its parent, and may have no children.    *)
(*                                                                         *)
(* A child element is the record of its tag and of the children the types  *)
(* read, each None when the element has no such child and Some(text)       *)
(* otherwise.  The derived decoders select the variant by the local name   *)
(* of the tag and read the fields of that variant.                         *)

\* The variants of RealItem.
RealItemVariants ==
    {"Message", "CalendarItem", "MeetingMessage", "MeetingRequest",
     "MeetingResponse", "MeetingCancellation"}

\* The variants of Attachment.
AttachmentVariants == {"ItemAttachment", "FileAttachment"}

ItemTags ==
    {<<"t", v>> : v \in RealItemVariants} \cup {<<"CalendarItem">>, <<"t", "Contact">>}

\* What an item element holds: Subject and HasAttachments.
ItemContents ==
    { [subject |-> None, has_attachments |-> None],
      [subject |-> Some("Team Meeting"), has_attachments |-> Some("false")],
      [subject |-> Some("Team Meeting"), has_attachments |-> Some("maybe")] }

ItemElements == {[tag |-> g, content |-> c] : g \in ItemTags, c \in ItemContents}

AttachmentTags ==
    {<<"t", "ItemAttachment">>, <<"t", "FileAttachment">>, <<"t", "ReferenceAttachment">>}

\* What an attachment element holds: the Id attribute of AttachmentId, Name,
\* ContentType and IsInline.
AttachmentElements ==
    [tag : AttachmentTags,
     attachment_id : {None, Some("AAMkAD")},
     name : {Some("test-image.png")},
     content_type : {None, Some("image/png")},
     is_inline : {None, Some("true"), Some("false")}]

\* The variants of Folder.
FolderVariants ==
    {"CalendarFolder", "ContactsFolder", "Folder", "SearchFolder", "TasksFolder"}

\* What a folder element holds: DisplayName.
FolderElements ==
    [tag : {<<"t", "Folder">>, <<"t", "CalendarFolder">>, <<"t", "PublicFolder">>},
     display_name : {None, Some("Inbox")}]

\* The local name of a tag, by which a variant is selected.
VariantName(tag) == tag[Len(tag)]

\* The text of a boolean element: None when it is not a boolean.
ParseBool(text) ==
    IF text \in {"true", "1"} THEN Some(TRUE)
    ELSE IF text \in {"false", "0"} THEN Some(FALSE)
    ELSE None

\* An Option<bool> field: absent, or the boolean written.
OptionalBool(field) == IF field = None THEN None ELSE ParseBool(field[1])

\* A field that is there and cannot be read.
Unreadable(field) == field # None /\ ParseBool(field[1]) = None

\* Deserialize for Message: every field is an Option.  None when a field
\* cannot be read.
DecodeMessage(c) ==
    IF Unreadable(c.has_attachments) THEN None
    ELSE Some([subject |-> c.subject,
               has_attachments |-> OptionalBool(c.has_attachments)])

\* As DecodeRealItem, but making every item a Message.
DecodeRealItemAsMessage(e) ==
    IF VariantName(e.tag) \notin RealItemVariants \/ DecodeMessage(e.content) = None
    THEN None
    ELSE Some([variant |-> "Message", message |-> DecodeMessage(e.content)[1]])

\* Deserialize for RealItem: the variant named by the tag, holding a Message.
DecodeRealItem(e) ==
    IF VariantName(e.tag) \notin RealItemVariants \/ DecodeMessage(e.content) = None
    THEN None
    ELSE Some([variant |-> VariantName(e.tag), message |-> DecodeMessage(e.content)[1]])

\* As DecodeItemAttachment, but with content_type: String as in FileAttachment.
DecodeItemAttachmentStrict(e) ==
    IF e.attachment_id = None \/ e.name = None \/ e.content_type = None
          \/ Unreadable(e.is_inline)
    THEN None
    ELSE Some([variant |-> "ItemAttachment",
               attachment_id |-> [id |-> e.attachment_id[1]],
               name |-> e.name[1],
               content_type |-> e.content_type,
               is_inline |-> OptionalBool(e.is_inline)])

\* Attachment::ItemAttachment: attachment_id and name are required,
\* content_type is an Option<String>.
DecodeItemAttachment(e) ==
    IF e.attachment_id = None \/ e.name = None \/ Unreadable(e.is_inline)
    THEN None
    ELSE Some([variant |-> "ItemAttachment",
               attachment_id |-> [id |-> e.attachment_id[1]],
               name |-> e.name[1],
               content_type |-> e.content_type,
               is_inline |-> OptionalBool(e.is_inline)])

\* Attachment::FileAttachment: attachment_id, name and content_type are
\* required; content_type is a String.
DecodeFileAttachment(e) ==
    IF e.attachment_id = None \/ e.name = None \/ e.content_type = None
          \/ Unreadable(e.is_inline)
    THEN None
    ELSE Some([variant |-> "FileAttachment",
               attachment_id |-> [id |-> e.attachment_id[1]],
               name |-> e.name[1],
               content_type |-> e.content_type[1],
               is_inline |-> OptionalBool(e.is_inline)])

\* Deserialize for Attachment: the variant named by the tag.
DecodeAttachment(e) ==
    IF VariantName(e.tag) = "ItemAttachment" THEN DecodeItemAttachment(e)
    ELSE IF VariantName(e.tag) = "FileAttachment" THEN DecodeFileAttachment(e)
    ELSE None

\* Deserialize for Folder: the variant named by the tag; every field is an
\* Option.
DecodeFolder(e) ==
    IF VariantName(e.tag) \notin FolderVariants THEN None
    ELSE Some([variant |-> VariantName(e.tag), display_name |-> e.display_name])

\* What a SendItemResponseMessage element holds: the ResponseClass attribute
\* and ResponseCode.
ResponseMessageElements ==
    [response_class : {None, Some("Success"), Some("Warning"), Some("Error"),
                       Some("Pending")},
     response_code : {Some("NoError"), Some("ErrorItemNotFound")}]

\* Deserialize for ResponseClass: the variant the text names.
DecodeResponseClass(text) ==
    IF text \in {"Success", "Warning", "Error"} THEN Some(text) ELSE None

\* As DecodeResponseMessage, but taking a message that is not a Success for
\* a failure of the decoding.
DecodeResponseMessageSuccessOnly(e) ==
    IF e.response_class # Some("Success") THEN None
    ELSE Some([response_class |-> "Success", response_code |-> e.response_code])

\* Deserialize for SendItemResponseMessage: `@ResponseClass` is required,
\* response_code is an Option.
DecodeResponseMessage(e) ==
    IF e.response_class = None THEN None
    ELSE IF DecodeResponseClass(e.response_class[1]) = None THEN None
    ELSE Some([response_class |-> DecodeResponseClass(e.response_class[1])[1],
               response_code |-> e.response_code])

\* `#[serde(rename = "$value", default)]` on `inner`: Items and Folders have
\* `default`; `inner` of Attachments and the Vec of ResponseMessages have not.
HasDefault(kind) == kind \in {"Items", "Folders"}

\* The field of the parent that holds the collection is an Option:
\* Message.attachments is, ItemResponseMessage.items and
\* FolderResponseMessage.folders are not.
FieldIsOption(kind) == kind = "Attachments"

CollectionKinds == {"Items", "Folders", "Attachments", "ResponseMessages"}

Collected(inner) == [kind |-> "Ok", inner |-> inner, error |-> ""]

CollectionError(what) == [kind |-> "Err", inner |-> <<>>, error |-> what]

NotCollected == [kind |-> "pending", inner |-> <<>>, error |-> ""]

\* No collection is being decoded.
ColIdle ==
    /\ colKind = "idle"
    /\ colPresent = FALSE
    /\ colChildren = <<>>
    /\ colInner = <<>>
    /\ colResult = NotCollected

\* The parent element arrives, with or without the element of the
\* collection; the element, when there, has its children.
ColInit ==
    /\ colInner = <<>>
    /\ colResult = NotCollected
    /\ \/ /\ colPresent = TRUE
          /\ \/ colKind = "Items" /\ colChildren \in SeqsUpTo(ItemElements, MaxItems)
             \/ colKind = "Folders"
                   /\ colChildren \in SeqsUpTo(FolderElements, MaxFolders)
             \/ colKind = "Attachments"
                   /\ colChildren \in SeqsUpTo(AttachmentElements, MaxAttachments)
             \/ colKind = "ResponseMessages"
                   /\ colChildren \in SeqsUpTo(ResponseMessageElements, MaxMessages)
       \/ /\ colPresent = FALSE
          /\ colKind \in CollectionKinds
          /\ colChildren = <<>>

\* The child the sequence visitor reads next.
NextChild == colChildren[Len(colInner) + 1]

Reading(kind) ==
    /\ colKind = kind
    /\ colPresent
    /\ colResult.kind = "pending"
    /\ Len(colInner) < Len(colChildren)

\* Items: the next child is pushed as the RealItem it decodes to.
PushItem ==
    /\ Reading("Items")
    /\ DecodeRealItem(NextChild) # None
    /\ colInner' = Append(colInner, DecodeRealItem(NextChild)[1])
    /\ UNCHANGED <<colKind, colPresent, colChildren, colResult>>
    /\ UNCHANGED notCollection

\* As UnknownItem, but taking the child for a Message without fields.
UnknownItemAsMessage ==
    /\ Reading("Items")
    /\ VariantName(NextChild.tag) \notin RealItemVariants
    /\ colInner' = Append(colInner,
                          [variant |-> "Message",
                           message |-> [subject |-> None, has_attachments |-> None]])
    /\ UNCHANGED <<colKind, colPresent, colChildren, colResult>>
    /\ UNCHANGED notCollection

\* Items: the tag of the next child names no variant of RealItem.
UnknownItem ==
    /\ Reading("Items")
    /\ VariantName(NextChild.tag) \notin RealItemVariants
    /\ colResult' = CollectionError("unknown variant")
    /\ colInner' = <<>>
    /\ UNCHANGED <<colKind, colPresent, colChildren>>
    /\ UNCHANGED notCollection

\* Items: the content of the next child does not decode as a Message.
ItemFails ==
    /\ Reading("Items")
    /\ VariantName(NextChild.tag) \in RealItemVariants
    /\ DecodeRealItem(NextChild) = None
    /\ colResult' = CollectionError("invalid value")
    /\ colInner' = <<>>
    /\ UNCHANGED <<colKind, colPresent, colChildren>>
    /\ UNCHANGED notCollection

\* Attachments: the next child is pushed as the Attachment it decodes to.
PushAttachment ==
    /\ Reading("Attachments")
    /\ DecodeAttachment(NextChild) # None
    /\ colInner' = Append(colInner, DecodeAttachment(NextChild)[1])
    /\ UNCHANGED <<colKind, colPresent, colChildren, colResult>>
    /\ UNCHANGED notCollection

\* Attachments: the tag of the next child names no variant of Attachment.
UnknownAttachment ==
    /\ Reading("Attachments")
    /\ VariantName(NextChild.tag) \notin AttachmentVariants
    /\ colResult' = CollectionError("unknown variant")
    /\ colInner' = <<>>
    /\ UNCHANGED <<colKind, colPresent, colChildren>>
    /\ UNCHANGED notCollection

\* Attachments: a required field of the next child is missing, or a field
\* cannot be read.
AttachmentFails ==
    /\ Reading("Attachments")
    /\ VariantName(NextChild.tag) \in AttachmentVariants
    /\ DecodeAttachment(NextChild) = None
    /\ colResult' = CollectionError("invalid value")
    /\ colInner' = <<>>
    /\ UNCHANGED <<colKind, colPresent, colChildren>>
    /\ UNCHANGED notCollection

\* Folders: the next child is pushed as the Folder it decodes to.
PushFolder ==
    /\ Reading("Folders")
    /\ DecodeFolder(NextChild) # None
    /\ colInner' = Append(colInner, DecodeFolder(NextChild)[1])
    /\ UNCHANGED <<colKind, colPresent, colChildren, colResult>>
    /\ UNCHANGED notCollection

\* Folders: the tag of the next child names no variant of Folder.
UnknownFolder ==
    /\ Reading("Folders")
    /\ DecodeFolder(NextChild) = None
    /\ colResult' = CollectionError("unknown variant")
    /\ colInner' = <<>>
    /\ UNCHANGED <<colKind, colPresent, colChildren>>
    /\ UNCHANGED notCollection

\* ResponseMessages: the next message is pushed with its own class.
PushResponseMessage ==
    /\ Reading("ResponseMessages")
    /\ DecodeResponseMessage(NextChild) # None
    /\ colInner' = Append(colInner, DecodeResponseMessage(NextChild)[1])
    /\ UNCHANGED <<colKind, colPresent, colChildren, colResult>>
    /\ UNCHANGED notCollection

\* ResponseMessages: the next message has no ResponseClass or one that names
\* no variant.
ResponseMessageFails ==
    /\ Reading("ResponseMessages")
    /\ DecodeResponseMessage(NextChild) = None
    /\ colResult' = CollectionError("invalid value")
    /\ colInner' = <<>>
    /\ UNCHANGED <<colKind, colPresent, colChildren>>
    /\ UNCHANGED notCollection

\* As MissingValue, but with `default` on every `inner`.
MissingValueDefaulted ==
    /\ colKind \in CollectionKinds
    /\ colPresent
    /\ colResult.kind = "pending"
    /\ colChildren = <<>>
    /\ ~HasDefault(colKind)
    /\ colResult' = Collected(<<>>)
    /\ UNCHANGED <<colKind, colPresent, colChildren, colInner>>
    /\ UNCHANGED notCollection

\* The element has no children, so the map of the struct never yields the
\* `$value` key: without `default` on `inner` the derived visitor ends in
\* missing_field("$value").
MissingValue ==
    /\ colKind \in CollectionKinds
    /\ colPresent
    /\ colResult.kind = "pending"
    /\ colChildren = <<>>
    /\ ~HasDefault(colKind)
    /\ colResult' = CollectionError("missing field")
    /\ UNCHANGED <<colKind, colPresent, colChildren, colInner>>
    /\ UNCHANGED notCollection

\* As WrapperAbsent, but with `default` on the field of the parent.
WrapperAbsentDefaulted ==
    /\ colKind \in CollectionKinds
    /\ ~colPresent
    /\ colResult.kind = "pending"
    /\ colResult' = Collected(<<>>)
    /\ UNCHANGED <<colKind, colPresent, colChildren, colInner>>
    /\ UNCHANGED notCollection

\* The parent has no element for the field: an Option field is None, a
\* field of type Items or Folders ends in missing_field.
WrapperAbsent ==
    /\ colKind \in CollectionKinds
    /\ ~colPresent
    /\ colResult.kind = "pending"
    /\ colResult' = IF FieldIsOption(colKind)
                    THEN [kind |-> "None", inner |-> <<>>, error |-> ""]
                    ELSE CollectionError("missing field")
    /\ UNCHANGED <<colKind, colPresent, colChildren, colInner>>
    /\ UNCHANGED notCollection

\* Every child was read: the collection holds them in document order.  With
\* no child at all `inner` is its default, the empty Vec.
CollectionComplete ==
    /\ colKind \in CollectionKinds
    /\ colPresent
    /\ colResult.kind = "pending"
    /\ Len(colInner) = Len(colChildren)
    /\ colChildren # <<>> \/ HasDefault(colKind)
    /\ colResult' = Collected(colInner)
    /\ UNCHANGED <<colKind, colPresent, colChildren, colInner>>
    /\ UNCHANGED notCollection

ColNext ==
    \/ PushResponseMessage
    \/ ResponseMessageFails
    \/ PushFolder
    \/ UnknownFolder
    \/ MissingValue
    \/ WrapperAbsent
    \/ PushItem
    \/ UnknownItem
    \/ ItemFails
    \/ PushAttachment
    \/ UnknownAttachment
    \/ AttachmentFails
    \/ CollectionComplete

-----------------------------------------------------------------------------
(* Properties of the tag-dispatched collections *)

\* The tag of an element without its prefix.
TagLocalName(e) == e.tag[Len(e.tag)]

\* Every child of the Items element is one of the six item elements and
\* holds readable content.
ItemsReadable ==
    /\ colPresent
    /\ \A i \in 1..Len(colChildren) :
           /\ TagLocalName(colChildren[i]) \in
                 {"Message", "CalendarItem", "MeetingMessage", "MeetingRequest",
                  "MeetingResponse", "MeetingCancellation"}
           /\ colChildren[i].content.has_attachments # Some("maybe")

\* C9: an Items element decodes to one item per child, in document order,
\* each of the variant its tag names; a single CalendarItem child gives
\* exactly one item, of the CalendarItem variant.
C9_ItemsDispatchOnTag ==
    (colKind = "Items" /\ colResult.kind # "pending" /\ ItemsReadable)
        => /\ colResult.kind = "Ok"
           /\ Len(colResult.inner) = Len(colChildren)
           /\ \A i \in 1..Len(colChildren) :
                 /\ colResult.inner[i].variant = TagLocalName(colChildren[i])
                 /\ colResult.inner[i].message.subject = colChildren[i].content.subject

C9_Witness ==
    /\ colKind = "Items"
    /\ Len(colChildren) = 1
    /\ colChildren[1].tag = <<"t", "CalendarItem">>
    /\ colChildren[1].content.subject = Some("Team Meeting")
    /\ colResult.kind = "Ok"
    /\ Len(colResult.inner) = 1
    /\ colResult.inner[1].variant = "CalendarItem"

\* The Attachments element has children, every one an ItemAttachment or a
\* FileAttachment with its AttachmentId and Name, and every FileAttachment
\* has a ContentType.
AttachmentsReadable ==
    /\ colPresent
    /\ colChildren # <<>>
    /\ \A i \in 1..Len(colChildren) :
           /\ TagLocalName(colChildren[i]) \in {"ItemAttachment", "FileAttachment"}
           /\ colChildren[i].attachment_id # None
           /\ colChildren[i].name # None
           /\ TagLocalName(colChildren[i]) = "FileAttachment"
                 => colChildren[i].content_type # None

\* C10: in one Attachments element an ItemAttachment without ContentType
\* decodes with content_type absent, a FileAttachment with ContentType
\* decodes with content_type that text; each attachment is decoded from its
\* own element and stands at its element's place.
C10_ContentTypePerVariant ==
    (colKind = "Attachments" /\ colResult.kind # "pending" /\ AttachmentsReadable)
        => /\ colResult.kind = "Ok"
           /\ Len(colResult.inner) = Len(colChildren)
           /\ \A i \in 1..Len(colChildren) :
                 LET e == colChildren[i]
                     a == colResult.inner[i]
                 IN  /\ a.variant = TagLocalName(e)
                     /\ a.name = e.name[1]
                     /\ a.attachment_id.id = e.attachment_id[1]
                     /\ (a.variant = "ItemAttachment" /\ e.content_type = None)
                           => a.content_type = None
                     /\ (a.variant = "ItemAttachment" /\ e.content_type # None)
                           => a.content_type = e.content_type
                     /\ a.variant = "FileAttachment"
                           => a.content_type = e.content_type[1]

C10_Witness ==
    /\ colKind = "Attachments"
    /\ colResult.kind = "Ok"
    /\ Len(colChildren) = 2
    /\ colChildren[1].tag = <<"t", "ItemAttachment">>
    /\ colChildren[1].content_type = None
    /\ colChildren[2].tag = <<"t", "FileAttachment">>
    /\ colChildren[2].content_type = Some("image/png")
    /\ colResult.inner[1].content_type = None
    /\ colResult.inner[2].content_type = "image/png"

\* C17 as stated: where the element of Items, Folders or Attachments is
\* missing from its parent, decoding gives the empty sequence.
C17_AsStated ==
    (colKind \in {"Items", "Folders", "Attachments"} /\ ~colPresent
        /\ colResult.kind # "pending")
        => colResult = Collected(<<>>)

\* C17: an Items or Folders element that is there and has no children
\* decodes to the empty sequence; where the element is missing from its
\* parent, a field of type Items or Folders is a missing-field error and the
\* Option field of a Message's attachments is None.
C17_EmptyElementNotAbsentElement ==
    (colKind \in {"Items", "Folders", "Attachments"} /\ colResult.kind # "pending")
        => /\ (colPresent /\ colChildren = <<>> /\ colKind \in {"Items", "Folders"})
                 => colResult = Collected(<<>>)
           /\ (~colPresent /\ colKind \in {"Items", "Folders"})
                 => colResult = CollectionError("missing field")
           /\ (~colPresent /\ colKind = "Attachments")
                 => colResult.kind = "None"

C17_Witness ==
    /\ colKind = "Items"
    /\ ~colPresent
    /\ colResult.kind = "Err"
    /\ colResult.error = "missing field"

\* C18: an element with no children decodes to the empty sequence whatever
\* the collection: Items, Folders, Attachments or a recipient list.
C18_UniformEmptyConvention ==
    /\ (colKind \in {"Items", "Folders", "Attachments"} /\ colPresent
          /\ colChildren = <<>> /\ colResult.kind # "pending")
          => colResult = Collected(<<>>)
    /\ (rcpIn = <<>> /\ rcpResult.kind # "pending")
          => rcpResult = Collected(<<>>)

\* The ResponseMessages element is there, holds at least one message, and
\* every message has a ResponseClass of Success, Warning or Error.
MessagesReadable ==
    /\ colPresent
    /\ colChildren # <<>>
    /\ \A i \in 1..Len(colChildren) :
           colChildren[i].response_class
              \in {Some("Success"), Some("Warning"), Some("Error")}

\* C13: a ResponseMessages element with N messages decodes to N outcomes in
\* document order, each with the class and the code of its own element; a
\* batch that mixes Success and Error decodes as a whole.
C13_OneOutcomePerMessage ==
    (colKind = "ResponseMessages" /\ colResult.kind # "pending" /\ MessagesReadable)
        => /\ colResult.kind = "Ok"
           /\ Len(colResult.inner) = Len(colChildren)
           /\ \A i \in 1..Len(colChildren) :
                 /\ Some(colResult.inner[i].response_class)
                       = colChildren[i].response_class
                 /\ colResult.inner[i].response_code = colChildren[i].response_code

C13_Witness ==
    /\ colKind = "ResponseMessages"
    /\ Len(colChildren) = 2
    /\ colChildren[1].response_class = Some("Success")
    /\ colChildren[2].response_class = Some("Error")
    /\ colResult.kind = "Ok"
    /\ Len(colResult.inner) = 2
    /\ colResult.inner[1].response_class = "Success"
    /\ colResult.inner[2].response_class = "Error"
    /\ colResult.inner[2].response_code = Some("ErrorItemNotFound")

-----------------------------------------------------------------------------
(* Recipient lists: src/ews/src/types/common.rs, ArrayOfRecipients with    *)
(* Recipient and Mailbox, deserialize_recipients and the derived           *)
(* XmlSerialize.                                                           *)
(*                                                                         *)
(* An XML element is the record of its tag, its attributes (pairs of name  *)
(* and value), the text it holds and its child elements.  The element of a *)
(* recipient list holds Mailbox elements only.                             *)

Element(tag, attrs, text, children) ==
    [tag |-> tag, attrs |-> attrs, text |-> text, children |-> children]

MailboxAddresses == {"alice@test.com", "bob@test.com"}

\* The sequences of a sequence, one after the other.
RECURSIVE Concat(_)
Concat(seqs) == IF seqs = <<>> THEN <<>> ELSE Head(seqs) \o Concat(Tail(seqs))

\* A Mailbox element with the Name and EmailAddress children given.
MailboxElement(tag, name, address) ==
    Element(tag, <<>>, None,
            (IF name = None THEN <<>> ELSE <<Element(<<"t", "Name">>, <<>>, Some(name[1]), <<>>)>>)
            \o (IF address = None THEN <<>>
                ELSE <<Element(<<"t", "EmailAddress">>, <<>>, Some(address[1]), <<>>)>>))

MailboxElements ==
    {MailboxElement(g, n, a) :
        g \in {<<"t", "Mailbox">>, <<"Mailbox">>}, n \in {None, Some("Alice Test")},
        a \in {None} \cup {Some(x) : x \in MailboxAddresses}}

\* Deserialize for Mailbox: email_address is a String, the other fields are
\* Options.  None when EmailAddress is missing or a field is there twice.
DecodeMailbox(e) ==
    LET names == SelectSeq(e.children, LAMBDA c : VariantName(c.tag) = "Name")
        addresses ==
            SelectSeq(e.children, LAMBDA c : VariantName(c.tag) = "EmailAddress")
    IN  IF Len(addresses) # 1 \/ Len(names) > 1 \/ addresses[1].text = None
        THEN None
        ELSE Some([name |-> IF names = <<>> THEN None ELSE names[1].text,
                   email_address |-> addresses[1].text[1],
                   routing_type |-> None,
                   mailbox_type |-> None,
                   item_id |-> None])

\* Recipient::new.
RecipientNew(address) ==
    [mailbox |-> [name |-> None, email_address |-> address,
                  routing_type |-> None, mailbox_type |-> None, item_id |-> None]]

\* Recipient::with_name.
RecipientWithName(address, name) ==
    [mailbox |-> [name |-> Some(name), email_address |-> address,
                  routing_type |-> None, mailbox_type |-> None, item_id |-> None]]

\* The recipients a caller constructs.
RecipientValues ==
    {RecipientNew(a) : a \in MailboxAddresses}
        \cup {RecipientWithName(a, "Alice Test") : a \in MailboxAddresses}

\* As DeserializeRecipients, but reading `mailbox` as one Mailbox, the first.
DeserializeRecipientsFirst(children) ==
    IF children = <<>> THEN CollectionError("missing field")
    ELSE IF DecodeMailbox(children[1]) = None THEN CollectionError("invalid value")
    ELSE Collected(<<[mailbox |-> DecodeMailbox(children[1])[1]]>>)

\* deserialize_recipients: MailboxSequence::deserialize reads every Mailbox
\* child into `mailbox: Vec<Mailbox>`, a field without `default`, and each
\* Mailbox is then wrapped in a Recipient.
DeserializeRecipients(children) ==
    IF children = <<>> THEN CollectionError("missing field")
    ELSE IF \E i \in 1..Len(children) : DecodeMailbox(children[i]) = None
    THEN CollectionError("invalid value")
    ELSE Collected([i \in 1..Len(children) |->
                          [mailbox |-> DecodeMailbox(children[i])[1]]])

\* XmlSerialize for Mailbox: Name when there is one, then EmailAddress; a
\* field that is None writes nothing.
SerializeMailbox(m) ==
    (IF m.name = None THEN <<>> ELSE <<Element(<<"t", "Name">>, <<>>, Some(m.name[1]), <<>>)>>)
    \o <<Element(<<"t", "EmailAddress">>, <<>>, Some(m.email_address), <<>>)>>

\* As SerializeRecipient, but with an element for the Recipient itself.
SerializeRecipientWrapped(r) ==
    <<Element(<<"t", "Recipient">>, <<>>, None,
              <<Element(<<"t", "Mailbox">>, <<>>, None, SerializeMailbox(r.mailbox))>>)>>

\* XmlSerialize for Recipient: the child nodes of a Recipient are its one
\* field, written as a t:Mailbox element.
SerializeRecipient(r) ==
    <<Element(<<"t", "Mailbox">>, <<>>, None, SerializeMailbox(r.mailbox))>>

\* XmlSerialize for ArrayOfRecipients: the child nodes of each Recipient, one
\* Recipient after the other, under the element the caller opened.
SerializeArrayOfRecipients(list) ==
    Concat([i \in 1..Len(list) |-> SerializeRecipient(list[i])])

\* No recipient list is being decoded or encoded.
RcpIdle ==
    /\ rcpPc = "idle"
    /\ rcpIn = <<>>
    /\ rcpResult = NotCollected
    /\ rcpList = <<>>
    /\ rcpOut = <<>>
    /\ rcpBack = NotCollected

\* Either the element of a recipient list arrives to be decoded, or a caller
\* has constructed an ArrayOfRecipients to encode.
RcpInit ==
    /\ rcpResult = NotCollected
    /\ rcpOut = <<>>
    /\ rcpBack = NotCollected
    /\ \/ /\ rcpPc = "decode"
          /\ rcpIn \in SeqsUpTo(MailboxElements, MaxRecipients)
          /\ rcpList = <<>>
       \/ /\ rcpPc = "value"
          /\ rcpIn = <<>>
          /\ rcpList \in SeqsUpTo(RecipientValues, MaxRecipients)

\* deserialize_recipients returns the list.
DecodeRecipients ==
    /\ rcpPc = "decode"
    /\ DeserializeRecipients(rcpIn).kind = "Ok"
    /\ rcpResult' = DeserializeRecipients(rcpIn)
    /\ rcpList' = DeserializeRecipients(rcpIn).inner
    /\ rcpPc' = "value"
    /\ UNCHANGED <<rcpIn, rcpOut, rcpBack>>
    /\ UNCHANGED notRecipients

\* MailboxSequence::deserialize fails and `?` returns its error.
RecipientsFail ==
    /\ rcpPc = "decode"
    /\ DeserializeRecipients(rcpIn).kind = "Err"
    /\ rcpResult' = DeserializeRecipients(rcpIn)
    /\ rcpPc' = "failed"
    /\ UNCHANGED <<rcpIn, rcpList, rcpOut, rcpBack>>
    /\ UNCHANGED notRecipients

\* The list is encoded under the element of its parent.
SerializeRecipients ==
    /\ rcpPc = "value"
    /\ rcpOut' = SerializeArrayOfRecipients(rcpList)
    /\ rcpPc' = "encoded"
    /\ UNCHANGED <<rcpIn, rcpResult, rcpList, rcpBack>>
    /\ UNCHANGED notRecipients

\* The element just written is handed to deserialize_recipients.
DecodeSerializedRecipients ==
    /\ rcpPc = "encoded"
    /\ rcpBack' = DeserializeRecipients(rcpOut)
    /\ rcpPc' = "redecoded"
    /\ UNCHANGED <<rcpIn, rcpResult, rcpList, rcpOut>>
    /\ UNCHANGED notRecipients

RcpNext ==
    \/ DecodeRecipients
    \/ RecipientsFail
    \/ SerializeRecipients
    \/ DecodeSerializedRecipients

-----------------------------------------------------------------------------
(* Properties of recipient lists *)

\* The text of the one child of e with the local name given, None when e has
\* no such child.
ChildText(e, name) ==
    IF \E i \in 1..Len(e.children) :
          e.children[i].tag[Len(e.children[i].tag)] = name
    THEN LET i == CHOOSE i \in 1..Len(e.children) :
                      e.children[i].tag[Len(e.children[i].tag)] = name
         IN  e.children[i].text
    ELSE None

\* The element of the recipient list holds at least one Mailbox and every
\* Mailbox has its EmailAddress.
MailboxesReadable ==
    /\ rcpIn # <<>>
    /\ \A i \in 1..Len(rcpIn) : ChildText(rcpIn[i], "EmailAddress") # None

\* C11: a recipient element with N Mailbox children decodes to exactly N
\* Recipients, the i-th holding the Name and EmailAddress of the i-th Mailbox.
C11_OneRecipientPerMailbox ==
    (rcpPc \notin {"idle", "decode"} /\ MailboxesReadable)
        => /\ rcpResult.kind = "Ok"
           /\ Len(rcpResult.inner) = Len(rcpIn)
           /\ \A i \in 1..Len(rcpIn) :
                 /\ rcpResult.inner[i].mailbox.email_address
                       = ChildText(rcpIn[i], "EmailAddress")[1]
                 /\ rcpResult.inner[i].mailbox.name = ChildText(rcpIn[i], "Name")

C11_Witness ==
    /\ Len(rcpIn) = 2
    /\ ChildText(rcpIn[1], "EmailAddress") = Some("alice@test.com")
    /\ ChildText(rcpIn[2], "EmailAddress") = Some("bob@test.com")
    /\ rcpResult.kind = "Ok"
    /\ Len(rcpResult.inner) = 2
    /\ rcpResult.inner[1].mailbox.email_address = "alice@test.com"
    /\ rcpResult.inner[2].mailbox.email_address = "bob@test.com"

\* C12: a list of N recipients is written as exactly N elements under the
\* parent, each a Mailbox holding the address of the recipient at its place;
\* no element stands between the parent and a Mailbox.
C12_MailboxesDirectlyUnderParent ==
    rcpPc \in {"encoded", "redecoded"}
        => /\ Len(rcpOut) = Len(rcpList)
           /\ \A i \in 1..Len(rcpList) :
                 /\ rcpOut[i].tag = <<"t", "Mailbox">>
                 /\ ChildText(rcpOut[i], "EmailAddress")
                       = Some(rcpList[i].mailbox.email_address)
                 /\ ChildText(rcpOut[i], "Name") = rcpList[i].mailbox.name

C12_Witness ==
    /\ rcpPc = "encoded"
    /\ rcpIn = <<>>
    /\ Len(rcpList) = 2
    /\ rcpList[1].mailbox.email_address = "alice@test.com"
    /\ rcpList[2].mailbox.email_address = "bob@test.com"
    /\ Len(rcpOut) = 2
    /\ rcpOut[1].tag = <<"t", "Mailbox">>
    /\ rcpOut[2].tag = <<"t", "Mailbox">>

\* C16: the elements written for a recipient list decode to an equal list.
C16_RecipientsRoundTrip ==
    rcpPc = "redecoded" => rcpBack = Collected(rcpList)

-----------------------------------------------------------------------------
(* Restrictions: src/ews/src/types/common.rs, Restriction with             *)
(* RestrictionType, its constructors and the derived XmlSerialize.         *)
(*                                                                         *)
(* A Restriction is the record of its active alternative (`type`), the     *)
(* FieldURI and the constant of an IsEqualTo or Exists, and the            *)
(* sub-restrictions of an And or Or.                                       *)

\* Restriction::and.
RestrictionAnd(restrictions) ==
    [type |-> "And", path |-> "", value |-> "", children |-> restrictions]

\* Restriction::or.
RestrictionOr(restrictions) ==
    [type |-> "Or", path |-> "", value |-> "", children |-> restrictions]

\* Restriction::equal_to.
RestrictionEqualTo(path, v) ==
    [type |-> "IsEqualTo", path |-> path, value |-> v, children |-> <<>>]

\* Restriction::exists.
RestrictionExists(path) ==
    [type |-> "Exists", path |-> path, value |-> "", children |-> <<>>]

\* The restrictions without sub-restrictions that a caller builds.
RestrictionLeaves ==
    {RestrictionEqualTo("item:Subject", v) : v \in {"Important", "Urgent"}}
        \cup {RestrictionExists("item:Subject")}

\* The traits Restriction, RestrictionType, AndRestriction, OrRestriction and
\* FieldEqualTo derive.
RestrictionDerives == {"Clone", "Debug", "XmlSerialize"}

\* The IsEqualTo and Exists restrictions in a list of trees.
RECURSIVE LeafTotal(_)
LeafTotal(list) ==
    IF list = <<>> THEN 0
    ELSE (IF Head(list).type \in {"And", "Or"} THEN LeafTotal(Head(list).children)
          ELSE 1) + LeafTotal(Tail(list))

\* The And and Or restrictions in a list of trees.
RECURSIVE CompoundTotal(_)
CompoundTotal(list) ==
    IF list = <<>> THEN 0
    ELSE (IF Head(list).type \in {"And", "Or"}
          THEN 1 + CompoundTotal(Head(list).children)
          ELSE 0) + CompoundTotal(Tail(list))

\* XmlSerialize for PathToElement::FieldURI: an element with one attribute.
SerializeFieldURI(path) ==
    Element(<<"t", "FieldURI">>, <<<<"FieldURI", path>>>>, None, <<>>)

\* XmlSerialize for FieldEqualTo: the path, then the constant inside
\* FieldURIOrConstant.
SerializeFieldEqualTo(path, v) ==
    <<SerializeFieldURI(path),
      Element(<<"t", "FieldURIOrConstant">>, <<>>, None,
              <<Element(<<"t", "Constant">>, <<<<"Value", v>>>>, None, <<>>)>>)>>

RECURSIVE SerializeRestriction(_)

\* As SerializeRestriction, but writing the last sub-restriction first.
SerializeRestrictionReversed(r) ==
    IF r.type \in {"And", "Or"}
    THEN <<Element(<<"t", r.type>>, <<>>, None,
                   Concat([i \in 1..Len(r.children) |->
                       SerializeRestriction(r.children[Len(r.children) + 1 - i])]))>>
    ELSE IF r.type = "IsEqualTo"
    THEN <<Element(<<"t", "IsEqualTo">>, <<>>, None, SerializeFieldEqualTo(r.path, r.value))>>
    ELSE <<Element(<<"t", "Exists">>, <<>>, None, <<SerializeFieldURI(r.path)>>)>>

\* As SerializeRestriction, but writing nothing for an And or Or that stands
\* inside another.
SerializeRestrictionShallow(r) ==
    IF r.type \in {"And", "Or"}
    THEN <<Element(<<"t", r.type>>, <<>>, None,
                   Concat([i \in 1..Len(r.children) |->
                       IF r.children[i].type \in {"And", "Or"} THEN <<>>
                       ELSE SerializeRestriction(r.children[i])]))>>
    ELSE IF r.type = "IsEqualTo"
    THEN <<Element(<<"t", "IsEqualTo">>, <<>>, None, SerializeFieldEqualTo(r.path, r.value))>>
    ELSE <<Element(<<"t", "Exists">>, <<>>, None, <<SerializeFieldURI(r.path)>>)>>

\* XmlSerialize for Restriction: restriction_type is flattened, so the child
\* nodes of a Restriction are the one element of its active variant; And and
\* Or hold the child nodes of their Vec<Restriction>, element after element.
SerializeRestriction(r) ==
    IF r.type \in {"And", "Or"}
    THEN <<Element(<<"t", r.type>>, <<>>, None,
                   Concat([i \in 1..Len(r.children) |->
                       SerializeRestriction(r.children[i])]))>>
    ELSE IF r.type = "IsEqualTo"
    THEN <<Element(<<"t", "IsEqualTo">>, <<>>, None, SerializeFieldEqualTo(r.path, r.value))>>
    ELSE <<Element(<<"t", "Exists">>, <<>>, None, <<SerializeFieldURI(r.path)>>)>>

\* No Restriction is being built.
ResIdle ==
    /\ resPc = "idle"
    /\ resStack = <<>>
    /\ resOut = <<>>

\* A caller starts to build a Restriction.
ResInit ==
    /\ resPc = "build"
    /\ resStack = <<>>
    /\ resOut = <<>>

\* The caller calls Restriction::equal_to or Restriction::exists.
BuildLeaf ==
    /\ resPc = "build"
    /\ LeafTotal(resStack) < MaxLeaves
    /\ \E leaf \in RestrictionLeaves : resStack' = Append(resStack, leaf)
    /\ UNCHANGED <<resPc, resOut>>
    /\ UNCHANGED notRestriction

\* The caller calls Restriction::and or Restriction::or with the last k
\* Restrictions built.
BuildCompound ==
    /\ resPc = "build"
    /\ CompoundTotal(resStack) < MaxCompounds
    /\ \E k \in 0..Len(resStack) :
          LET kept == SubSeq(resStack, 1, Len(resStack) - k)
              taken == SubSeq(resStack, Len(resStack) - k + 1, Len(resStack))
          IN  \/ resStack' = Append(kept, RestrictionAnd(taken))
              \/ resStack' = Append(kept, RestrictionOr(taken))
    /\ UNCHANGED <<resPc, resOut>>
    /\ UNCHANGED notRestriction

\* The one Restriction the caller holds is encoded under its parent.
EncodeRestriction ==
    /\ resPc = "build"
    /\ Len(resStack) = 1
    /\ resOut' = SerializeRestriction(resStack[1])
    /\ resPc' = "encoded"
    /\ UNCHANGED resStack
    /\ UNCHANGED notRestriction

ResNext ==
    \/ BuildLeaf
    \/ BuildCompound
    \/ EncodeRestriction

-----------------------------------------------------------------------------
(* Properties of restrictions *)

\* The value of the attribute of e with the name given.
AttributeOf(e, name) ==
    LET i == CHOOSE i \in 1..Len(e.attrs) : e.attrs[i][1] = name
    IN  e.attrs[i][2]

\* The element e is the element form of the IsEqualTo restriction r.
IsEqualToElement(e, r) ==
    /\ e.tag = <<"t", "IsEqualTo">>
    /\ Len(e.children) = 2
    /\ e.children[1].tag = <<"t", "FieldURI">>
    /\ AttributeOf(e.children[1], "FieldURI") = r.path
    /\ e.children[2].tag = <<"t", "FieldURIOrConstant">>
    /\ Len(e.children[2].children) = 1
    /\ e.children[2].children[1].tag = <<"t", "Constant">>
    /\ AttributeOf(e.children[2].children[1], "Value") = r.value

\* The Restriction held is And(Or(IsEqualTo, IsEqualTo), IsEqualTo).
IsAndOfOrAndEqual(r) ==
    /\ r.type = "And"
    /\ Len(r.children) = 2
    /\ r.children[1].type = "Or"
    /\ Len(r.children[1].children) = 2
    /\ r.children[1].children[1].type = "IsEqualTo"
    /\ r.children[1].children[2].type = "IsEqualTo"
    /\ r.children[2].type = "IsEqualTo"

RECURSIVE Mirrors(_, _)
Mirrors(e, r) ==
    /\ e.tag = <<"t", r.type>>
    /\ r.type \in {"And", "Or"}
          => /\ Len(e.children) = Len(r.children)
             /\ \A i \in 1..Len(r.children) : Mirrors(e.children[i], r.children[i])
    /\ r.type = "IsEqualTo" => IsEqualToElement(e, r)
    /\ r.type = "Exists"
          => /\ Len(e.children) = 1
             /\ e.children[1].tag = <<"t", "FieldURI">>
             /\ AttributeOf(e.children[1], "FieldURI") = r.path

\* C15: a Restriction is written as exactly one element, named for its
\* active alternative; an And or Or element holds the element forms of its
\* sub-restrictions in the order given, at every depth of the tree.
C15_OneElementPerAlternative ==
    resPc = "encoded" => Len(resOut) = 1 /\ Mirrors(resOut[1], resStack[1])

\* An And inside an And, holding an Or before an Exists.
C15_Witness ==
    /\ resPc = "encoded"
    /\ resStack[1].type = "And"
    /\ Len(resStack[1].children) = 1
    /\ resStack[1].children[1].type = "And"
    /\ Len(resStack[1].children[1].children) = 2
    /\ resStack[1].children[1].children[2].type = "Exists"
    /\ resOut[1].children[1].tag = <<"t", "And">>
    /\ resOut[1].children[1].children[2].tag = <<"t", "Exists">>

-----------------------------------------------------------------------------
(* Operations: the `impl Operation` and `impl EnvelopeBodyContents` of     *)
(* every request type, as in src/ews/src/types/mark_as_read.rs.            *)

\* For each request type: the type, what its name() returns, its
\* `type Response` and what the name() of that type returns.
OperationCatalogue ==
    { [type |-> "MarkAsRead", name |-> "MarkAsRead",
       response |-> "MarkAsReadResponse", response_name |-> "MarkAsReadResponse"],
      [type |-> "GetMailTips", name |-> "GetMailTips",
       response |-> "GetMailTipsResponse", response_name |-> "GetMailTipsResponse"],
      [type |-> "EmptyFolder", name |-> "EmptyFolder",
       response |-> "EmptyFolderResponse", response_name |-> "EmptyFolderResponse"],
      [type |-> "FindFolder", name |-> "FindFolder",
       response |-> "FindFolderResponse", response_name |-> "FindFolderResponse"],
      [type |-> "FindItem", name |-> "FindItem",
       response |-> "FindItemResponse", response_name |-> "FindItemResponse"],
      [type |-> "CreateAttachment", name |-> "CreateAttachment",
       response |-> "CreateAttachmentResponse",
       response_name |-> "CreateAttachmentResponse"],
      [type |-> "ResolveNames", name |-> "ResolveNames",
       response |-> "ResolveNamesResponse", response_name |-> "ResolveNamesResponse"],
      [type |-> "SendItem", name |-> "SendItem",
       response |-> "SendItemResponse", response_name |-> "SendItemResponse"],
      [type |-> "ReplyToItem", name |-> "ReplyToItem",
       response |-> "ReplyToItemResponse", response_name |-> "ReplyToItemResponse"],
      [type |-> "GetServerTimeZones", name |-> "GetServerTimeZones",
       response |-> "GetServerTimeZonesResponse",
       response_name |-> "GetServerTimeZonesResponse"],
      [type |-> "MoveItem", name |-> "MoveItem",
       response |-> "MoveItemResponse", response_name |-> "MoveItemResponse"],
      [type |-> "GetUserAvailability", name |-> "GetUserAvailability",
       response |-> "GetUserAvailabilityResponse",
       response_name |-> "GetUserAvailabilityResponse"] }

NotNamed == [name |-> "", response |-> "", response_name |-> ""]

\* No operation is being named.
OpIdle ==
    /\ opType = ""
    /\ opNames = NotNamed

\* A request of one of the operation types is about to be sent.
OpInit ==
    /\ opType \in {c.type : c \in OperationCatalogue}
    /\ opNames = NotNamed

\* As NameOperation, but with the name of the response for the request.
NameOperationAsResponse ==
    /\ opType # ""
    /\ opNames = NotNamed
    /\ \E c \in OperationCatalogue :
          /\ c.type = opType
          /\ opNames' = [name |-> c.response_name, response |-> c.response,
                         response_name |-> c.response_name]
    /\ UNCHANGED opType
    /\ UNCHANGED notOperation

\* The request element is named by T::name() and the response is decoded as
\* T::Response, whose element is expected under T::Response::name().
NameOperation ==
    /\ opType # ""
    /\ opNames = NotNamed
    /\ \E c \in OperationCatalogue :
          /\ c.type = opType
          /\ opNames' = [name |-> c.name, response |-> c.response,
                         response_name |-> c.response_name]
    /\ UNCHANGED opType
    /\ UNCHANGED notOperation

\* C20: for every operation type, name() is the type name, the response type
\* is named by that name followed by `Response` and so is its element, and
\* the type has one response type only.
C20_NameIsTypeName ==
    opNames # NotNamed
        => /\ opNames.name = opType
           /\ opNames.response = opType \o "Response"
           /\ opNames.response_name = opType \o "Response"
           /\ Cardinality({c.response : c \in {d \in OperationCatalogue : d.type = opType}}) = 1

C20_Witness ==
    /\ opType = "MarkAsRead"
    /\ opNames.name = "MarkAsRead"
    /\ opNames.response_name = "MarkAsReadResponse"

-----------------------------------------------------------------------------
(* Messages: src/ews/src/types/common.rs, Message with its constructors    *)
(* and the three methods that ask for its attachments.                     *)
(*                                                                         *)
(* A Message is the record of its fifty fields, each None or Some(v).  The *)
(* value of `attachments` is the record of its `inner` sequence.           *)

\* #[derive(Default)] on Message: every field is an Option, so None.
MessageDefault ==
    [f \in {"mime_content", "item_id", "parent_folder_id", "item_class", "subject",
            "sensitivity", "body", "attachments", "date_time_received", "size",
            "categories", "extended_property", "importance", "in_reply_to",
            "is_submitted", "is_draft", "is_from_me", "is_resend", "is_unmodified",
            "internet_message_headers", "date_time_sent", "date_time_created",
            "reminder_due_by", "reminder_is_set", "reminder_minutes_before_start",
            "display_cc", "display_to", "has_attachments", "culture", "sender",
            "to_recipients", "cc_recipients", "bcc_recipients",
            "is_read_receipt_requested", "is_delivery_receipt_requested",
            "conversation_index", "conversation_topic", "from",
            "internet_message_id", "is_read", "is_response_requested", "reply_to",
            "received_by", "received_representing", "last_modified_name",
            "last_modified_time", "is_associated", "conversation_id", "references",
            "response_objects"} |-> None]

\* Message::new()
MessageNew ==
    [mime_content |-> None,
     item_id |-> None,
     parent_folder_id |-> None,
     item_class |-> None,
     subject |-> None,
     sensitivity |-> None,
     body |-> None,
     attachments |-> None,
     date_time_received |-> None,
     size |-> None,
     categories |-> None,
     extended_property |-> None,
     importance |-> None,
     in_reply_to |-> None,
     is_submitted |-> None,
     is_draft |-> None,
     is_from_me |-> None,
     is_resend |-> None,
     is_unmodified |-> None,
     internet_message_headers |-> None,
     date_time_sent |-> None,
     date_time_created |-> None,
     reminder_due_by |-> None,
     reminder_is_set |-> None,
     reminder_minutes_before_start |-> None,
     display_cc |-> None,
     display_to |-> None,
     has_attachments |-> None,
     culture |-> None,
     sender |-> None,
     to_recipients |-> None,
     cc_recipients |-> None,
     bcc_recipients |-> None,
     is_read_receipt_requested |-> None,
     is_delivery_receipt_requested |-> None,
     conversation_index |-> None,
     conversation_topic |-> None,
     from |-> None,
     internet_message_id |-> None,
     is_read |-> None,
     is_response_requested |-> None,
     reply_to |-> None,
     received_by |-> None,
     received_representing |-> None,
     last_modified_name |-> None,
     last_modified_time |-> None,
     is_associated |-> None,
     conversation_id |-> None,
     references |-> None,
     response_objects |-> None]

\* As MessageWithBasicInfo, but marking the message as one without
\* attachments.
MessageWithBasicInfoFlagged(subject, text, to_recipients) ==
    [MessageNew EXCEPT !.subject = Some(subject),
                       !.body = Some(text),
                       !.to_recipients = Some(to_recipients),
                       !.has_attachments = Some(FALSE)]

\* Message::with_basic_info(subject, body, to_recipients)
MessageWithBasicInfo(subject, text, to_recipients) ==
    [MessageNew EXCEPT !.subject = Some(subject),
                       !.body = Some(text),
                       !.to_recipients = Some(to_recipients)]

\* As HasAnyAttachments, but answering from the has_attachments flag.
HasAnyAttachmentsFromFlag(m) == m.has_attachments = Some(TRUE)

\* Message::has_any_attachments
HasAnyAttachments(m) ==
    IF m.attachments = None THEN FALSE
    ELSE m.attachments[1].inner # <<>>

\* Option<bool>::unwrap_or(false)
UnwrapOrFalse(flag) == IF flag = None THEN FALSE ELSE flag[1]

\* As HasInlineAttachments, but looking at FileAttachments only.
HasInlineAttachmentsFileOnly(m) ==
    IF m.attachments = None THEN FALSE
    ELSE \E i \in 1..Len(m.attachments[1].inner) :
            /\ m.attachments[1].inner[i].variant = "FileAttachment"
            /\ UnwrapOrFalse(m.attachments[1].inner[i].is_inline)

\* Message::has_inline_attachments
HasInlineAttachments(m) ==
    IF m.attachments = None THEN FALSE
    ELSE \E i \in 1..Len(m.attachments[1].inner) :
            UnwrapOrFalse(m.attachments[1].inner[i].is_inline)

\* As HasRegularAttachments, but counting only the attachments whose
\* is_inline is written as false.
HasRegularAttachmentsExplicit(m) ==
    IF m.attachments = None THEN FALSE
    ELSE \E i \in 1..Len(m.attachments[1].inner) :
            m.attachments[1].inner[i].is_inline = Some(FALSE)

\* Message::has_regular_attachments
HasRegularAttachments(m) ==
    IF m.attachments = None THEN FALSE
    ELSE \E i \in 1..Len(m.attachments[1].inner) :
            ~UnwrapOrFalse(m.attachments[1].inner[i].is_inline)

NoAnswers == [any |-> FALSE, inline |-> FALSE, regular |-> FALSE]

\* No Message is held.
MsgIdle ==
    /\ msg = MessageNew
    /\ msgPc = "idle"
    /\ msgAnswers = NoAnswers

\* The caller holds Message::new().
MsgInit ==
    /\ msg = MessageNew
    /\ msgPc = "new"
    /\ msgAnswers = NoAnswers

\* The caller makes the message with Message::with_basic_info.
WithBasicInfo ==
    /\ msgPc = "new"
    /\ \E subject \in {"Team Meeting"},
          text \in {[body_type |-> "Text", is_truncated |-> None,
                     content |-> Some("This is my reply.")]},
          to_recipients \in SeqsUpTo(RecipientValues, 1) :
            msg' = MessageWithBasicInfo(subject, text, to_recipients)
    /\ msgPc' = "basic"
    /\ UNCHANGED msgAnswers
    /\ UNCHANGED notMessage

\* The caller assigns the public fields `attachments` and `has_attachments`.
SetAttachments ==
    /\ msgPc = "new"
    /\ \E flag \in {None, Some(TRUE), Some(FALSE)},
          es \in SeqsUpTo({e \in AttachmentElements : DecodeAttachment(e) # None},
                          MaxAttachments) :
            msg' = [msg EXCEPT
                       !.has_attachments = flag,
                       !.attachments =
                           Some([inner |-> [i \in 1..Len(es) |->
                                               DecodeAttachment(es[i])[1]]])]
    /\ msgPc' = "built"
    /\ UNCHANGED msgAnswers
    /\ UNCHANGED notMessage

\* As MessageDecoded, but leaving `attachments` out when the Attachments
\* element cannot be decoded.
MessageDecodedLenient ==
    /\ msgPc = "idle"
    /\ colKind = "Attachments"
    /\ colResult.kind # "pending"
    /\ \E flag \in {None, Some(TRUE), Some(FALSE)} :
          msg' = [MessageNew EXCEPT
                     !.has_attachments = flag,
                     !.attachments = IF colResult.kind = "Ok"
                                     THEN Some([inner |-> colResult.inner])
                                     ELSE None]
    /\ msgPc' = "built"
    /\ UNCHANGED msgAnswers
    /\ UNCHANGED notMessage

\* Deserialize for Message, once its Attachments element has been handled:
\* an error of the element is the error of the Message; otherwise the field
\* is None or Some(Attachments), next to what HasAttachments holds.
MessageDecoded ==
    /\ msgPc = "idle"
    /\ colKind = "Attachments"
    /\ colResult.kind # "pending"
    /\ \/ /\ colResult.kind = "Err"
          /\ msgPc' = "failed"
          /\ UNCHANGED msg
       \/ /\ colResult.kind # "Err"
          /\ \E flag \in {None, Some(TRUE), Some(FALSE)} :
                msg' = [MessageNew EXCEPT
                           !.has_attachments = flag,
                           !.attachments = IF colResult.kind = "Ok"
                                           THEN Some([inner |-> colResult.inner])
                                           ELSE None]
          /\ msgPc' = "built"
    /\ UNCHANGED msgAnswers
    /\ UNCHANGED notMessage

\* The caller asks the three methods.
AskAttachments ==
    /\ msgPc = "built"
    /\ msgAnswers' = [any |-> HasAnyAttachments(msg),
                      inline |-> HasInlineAttachments(msg),
                      regular |-> HasRegularAttachments(msg)]
    /\ msgPc' = "asked"
    /\ UNCHANGED msg
    /\ UNCHANGED notMessage

MsgNext ==
    \/ WithBasicInfo
    \/ SetAttachments
    \/ MessageDecoded
    \/ AskAttachments

-----------------------------------------------------------------------------
(* Properties of messages *)

\* The attachments the message holds: none when it has no collection.
HeldAttachments == IF msg.attachments = None THEN <<>> ELSE msg.attachments[1].inner

\* C23: has_any_attachments is true exactly when the message has an
\* attachments collection that holds at least one attachment, whatever
\* has_attachments says; so it is true for a message decoded with
\* HasAttachments false and one inline FileAttachment, and false for a
\* message decoded without an Attachments element.
C23_AnyAttachmentsFromCollection ==
    msgPc = "asked"
        => /\ msgAnswers.any
                 = (msg.attachments # None /\ Len(msg.attachments[1].inner) >= 1)
           /\ (colKind = "Attachments" /\ ~colPresent) => ~msgAnswers.any

C23_Witness ==
    /\ msgPc = "asked"
    /\ colKind = "Attachments"
    /\ Len(colChildren) = 1
    /\ colChildren[1].tag = <<"t", "FileAttachment">>
    /\ colChildren[1].is_inline = Some("true")
    /\ msg.has_attachments = Some(FALSE)
    /\ Len(HeldAttachments) = 1
    /\ HeldAttachments[1].is_inline = Some(TRUE)
    /\ msgAnswers.any

\* C24: has_inline_attachments is true exactly when some attachment, file or
\* item, has is_inline true; has_regular_attachments is true exactly when
\* some attachment has is_inline false or none; both are false when the
\* collection is missing or empty.
C24_InlineAndRegular ==
    msgPc = "asked"
        => /\ msgAnswers.inline
                 = (\E i \in 1..Len(HeldAttachments) :
                       HeldAttachments[i].is_inline = Some(TRUE))
           /\ msgAnswers.regular
                 = (\E i \in 1..Len(HeldAttachments) :
                       HeldAttachments[i].is_inline \in {Some(FALSE), None})
           /\ HeldAttachments = <<>> => ~msgAnswers.inline /\ ~msgAnswers.regular

C24_Witness ==
    /\ msgPc = "asked"
    /\ Len(HeldAttachments) = 2
    /\ HeldAttachments[1].variant = "ItemAttachment"
    /\ HeldAttachments[1].is_inline = Some(TRUE)
    /\ HeldAttachments[2].variant = "FileAttachment"
    /\ HeldAttachments[2].is_inline = None
    /\ msgAnswers.inline
    /\ msgAnswers.regular

\* C29: has_any_attachments is has_inline_attachments or
\* has_regular_attachments, so a message that holds an attachment is never
\* told to have neither kind.
C29_AnyIsInlineOrRegular ==
    msgPc = "asked"
        => /\ msgAnswers.any = (msgAnswers.inline \/ msgAnswers.regular)
           /\ HeldAttachments # <<>> => msgAnswers.inline \/ msgAnswers.regular

C29_Witness ==
    /\ msgPc = "asked"
    /\ Len(HeldAttachments) = 1
    /\ HeldAttachments[1].variant = "ItemAttachment"
    /\ HeldAttachments[1].is_inline = Some(TRUE)
    /\ msg.has_attachments = None
    /\ msgAnswers = [any |-> TRUE, inline |-> TRUE, regular |-> FALSE]

\* C30: Message::new() is Message::default(), every field None; the message
\* of with_basic_info differs from it in subject, body and to_recipients and
\* in no other field.
C30_ConstructorsSetNothingElse ==
    /\ msgPc = "new" => msg = MessageDefault /\ \A f \in DOMAIN msg : msg[f] = None
    /\ msgPc = "basic"
          => /\ DOMAIN msg = DOMAIN MessageDefault
             /\ {f \in DOMAIN msg : msg[f] # MessageDefault[f]}
                   = {"subject", "body", "to_recipients"}

C30_Witness ==
    /\ msgPc = "basic"
    /\ msg.subject = Some("Team Meeting")
    /\ msg.body # None
    /\ msg.to_recipients = Some(<<RecipientNew("alice@test.com")>>)
    /\ msg.has_attachments = None
    /\ msg.attachments = None

\* Every child of the Attachments element is an ItemAttachment or a
\* FileAttachment with its AttachmentId and Name and a readable IsInline, so
\* that a child can lack nothing but its ContentType.
OnlyContentTypeMayLack ==
    /\ colKind = "Attachments"
    /\ colPresent
    /\ colChildren # <<>>
    /\ \A i \in 1..Len(colChildren) :
           /\ TagLocalName(colChildren[i]) \in {"ItemAttachment", "FileAttachment"}
           /\ colChildren[i].attachment_id # None
           /\ colChildren[i].name # None
           /\ colChildren[i].is_inline \in {None, Some("true"), Some("false")}

\* The FileAttachment children without a ContentType.
FilesWithoutContentType ==
    {i \in 1..Len(colChildren) :
        /\ TagLocalName(colChildren[i]) = "FileAttachment"
        /\ colChildren[i].content_type = None}

\* C27: a FileAttachment without ContentType makes the Attachments element
\* fail to decode, and the Message that holds it; an ItemAttachment without
\* ContentType decodes, its content_type None, inside a Message that
\* decodes.
C27_ContentTypeRequiredForFilesOnly ==
    (OnlyContentTypeMayLack /\ msgPc # "idle")
        => /\ FilesWithoutContentType # {}
                 => colResult.kind = "Err" /\ msgPc = "failed"
           /\ FilesWithoutContentType = {}
                 => /\ colResult.kind = "Ok"
                    /\ msgPc \in {"built", "asked"}
                    /\ Len(HeldAttachments) = Len(colChildren)
                    /\ \A i \in 1..Len(colChildren) :
                          (/\ TagLocalName(colChildren[i]) = "ItemAttachment"
                           /\ colChildren[i].content_type = None)
                             => /\ HeldAttachments[i].variant = "ItemAttachment"
                                /\ HeldAttachments[i].content_type = None

C27_Witness ==
    /\ OnlyContentTypeMayLack
    /\ Len(colChildren) = 2
    /\ colChildren[1].tag = <<"t", "ItemAttachment">>
    /\ colChildren[1].content_type = None
    /\ colChildren[2].tag = <<"t", "FileAttachment">>
    /\ colChildren[2].content_type = None
    /\ Len(colInner) = 0
    /\ colResult.kind = "Err"
    /\ msgPc = "failed"

\* The children of the collection whose tag names no variant of its type.
UnknownChildren ==
    {i \in 1..Len(colChildren) :
        TagLocalName(colChildren[i])
           \notin (IF colKind = "Items"
                   THEN {"Message", "CalendarItem", "MeetingMessage", "MeetingRequest",
                         "MeetingResponse", "MeetingCancellation"}
                   ELSE {"ItemAttachment", "FileAttachment"})}

\* C28: an Items or Attachments element with a child whose tag names no
\* variant fails to decode as a whole: no item or attachment is returned,
\* the child is neither skipped nor taken for another variant.
C28_VariantSetsAreClosed ==
    (/\ colKind \in {"Items", "Attachments"}
     /\ colPresent
     /\ colResult.kind # "pending"
     /\ UnknownChildren # {})
        => /\ colResult.kind = "Err"
           /\ colResult.inner = <<>>

C28_Witness ==
    /\ colKind = "Items"
    /\ Len(colChildren) = 2
    /\ colChildren[1].tag = <<"t", "Message">>
    /\ colChildren[1].content.subject = Some("Team Meeting")
    /\ colChildren[1].content.has_attachments = Some("false")
    /\ colChildren[2].tag = <<"t", "Contact">>
    /\ colResult = CollectionError("unknown variant")

-----------------------------------------------------------------------------
(* Encoding of structures: the derived XmlSerialize of ReplyToItem         *)
(* (src/src/types/reply_to_item.rs), of MarkAsRead                         *)
(* (src/ews/src/types/mark_as_read.rs) and of PathToElement's              *)
(* ExtendedFieldURI (src/ews/src/types/common.rs).                         *)
(*                                                                         *)
(* A type is the record of the tag of its element, of whether it declares  *)
(* a default namespace, and of its fields in the order of declaration:     *)
(* the field, its XML name, whether it is an attribute, and the kind of    *)
(* its value.  A value is the record of its fields, each None or Some(v);  *)
(* a field that is not an Option always holds Some(v).                     *)

\* struct ReplyToItem
ReplyToItemType ==
    [tag |-> <<"ReplyToItem">>,
     default_ns |-> TRUE,
     fields |->
        << [field |-> "message_disposition", name |-> <<"MessageDisposition">>,
            attribute |-> TRUE, kind |-> "text"],
           [field |-> "subject", name |-> <<"t", "Subject">>,
            attribute |-> FALSE, kind |-> "text"],
           [field |-> "body", name |-> <<"t", "Body">>,
            attribute |-> FALSE, kind |-> "Body"],
           [field |-> "to_recipients", name |-> <<"t", "ToRecipients">>,
            attribute |-> FALSE, kind |-> "ArrayOfRecipients"],
           [field |-> "cc_recipients", name |-> <<"t", "CcRecipients">>,
            attribute |-> FALSE, kind |-> "ArrayOfRecipients"],
           [field |-> "bcc_recipients", name |-> <<"t", "BccRecipients">>,
            attribute |-> FALSE, kind |-> "ArrayOfRecipients"],
           [field |-> "is_read_receipt_requested",
            name |-> <<"t", "IsReadReceiptRequested">>,
            attribute |-> FALSE, kind |-> "bool"],
           [field |-> "is_delivery_receipt_requested",
            name |-> <<"t", "IsDeliveryReceiptRequested">>,
            attribute |-> FALSE, kind |-> "bool"],
           [field |-> "from", name |-> <<"t", "From">>,
            attribute |-> FALSE, kind |-> "Recipient"],
           [field |-> "reference_item_id", name |-> <<"t", "ReferenceItemId">>,
            attribute |-> FALSE, kind |-> "ItemId"],
           [field |-> "new_body_content", name |-> <<"t", "NewBodyContent">>,
            attribute |-> FALSE, kind |-> "Body"],
           [field |-> "received_by", name |-> <<"t", "ReceivedBy">>,
            attribute |-> FALSE, kind |-> "Recipient"],
           [field |-> "received_representing",
            name |-> <<"t", "ReceivedRepresenting">>,
            attribute |-> FALSE, kind |-> "Recipient"] >>]

\* struct MarkAsRead
MarkAsReadType ==
    [tag |-> <<"MarkAsRead">>,
     default_ns |-> TRUE,
     fields |->
        << [field |-> "read_flag", name |-> <<"ReadFlag">>,
            attribute |-> TRUE, kind |-> "bool"],
           [field |-> "suppress_read_receipts", name |-> <<"SuppressReadReceipts">>,
            attribute |-> TRUE, kind |-> "bool"],
           [field |-> "item_ids", name |-> <<"ItemIds">>,
            attribute |-> FALSE, kind |-> "ItemIds"] >>]

\* PathToElement::ExtendedFieldURI, with variant_ns_prefix = "t"
ExtendedFieldURIType ==
    [tag |-> <<"t", "ExtendedFieldURI">>,
     default_ns |-> FALSE,
     fields |->
        << [field |-> "distinguished_property_set_id",
            name |-> <<"DistinguishedPropertySetId">>,
            attribute |-> TRUE, kind |-> "text"],
           [field |-> "property_set_id", name |-> <<"PropertySetId">>,
            attribute |-> TRUE, kind |-> "text"],
           [field |-> "property_tag", name |-> <<"PropertyTag">>,
            attribute |-> TRUE, kind |-> "text"],
           [field |-> "property_name", name |-> <<"PropertyName">>,
            attribute |-> TRUE, kind |-> "text"],
           [field |-> "property_id", name |-> <<"PropertyId">>,
            attribute |-> TRUE, kind |-> "text"],
           [field |-> "property_type", name |-> <<"PropertyType">>,
            attribute |-> TRUE, kind |-> "text"] >>]

\* The type with the name given.
StructType(type) ==
    CASE type = "ReplyToItem" -> ReplyToItemType
      [] type = "MarkAsRead" -> MarkAsReadType
      [] type = "ExtendedFieldURI" -> ExtendedFieldURIType

\* The values a caller constructs.
StructValues(type) ==
    LET text == [body_type |-> "Text", is_truncated |-> None,
                 content |-> Some("This is my reply.")]
        john == RecipientWithName("alice@test.com", "Alice Test")
        ids  == {[id |-> "test-item-id", change_key |-> k] :
                    k \in {None, Some("test-change-key")}}
    IN  CASE type = "ReplyToItem" ->
               [message_disposition : {None, Some("SendAndSaveCopy")},
                subject : {None, Some("Re: Test Subject")},
                body : {None, Some(text)},
                to_recipients : {None, Some(<<john>>)},
                cc_recipients : {None, Some(<<>>)},
                bcc_recipients : {None, Some(<<john>>)},
                is_read_receipt_requested : {None, Some(FALSE)},
                is_delivery_receipt_requested : {None, Some(TRUE)},
                from : {None, Some(john)},
                reference_item_id : {Some(i) : i \in ids},
                new_body_content : {None, Some([text EXCEPT !.is_truncated = Some(TRUE),
                                                            !.content = None])},
                received_by : {None, Some(john)},
                received_representing : {None}]
          [] type = "MarkAsRead" ->
               [read_flag : {Some(TRUE), Some(FALSE)},
                suppress_read_receipts : {None, Some(FALSE)},
                item_ids : {Some(s) : s \in SeqsUpTo(ids, 1)}]
          [] type = "ExtendedFieldURI" ->
               [distinguished_property_set_id : {None, Some("Common")},
                property_set_id : {None, Some("c11ff724-aa03-4555-9952-8fa248a11c3e")},
                property_tag : {None, Some("0x0E07")},
                property_name : {None, Some("FlagStatus")},
                property_id : {None, Some("34144")},
                property_type : {Some("String"), Some("Integer")}]

\* The text written for a bool.
BoolText(b) == IF b THEN "true" ELSE "false"

\* XmlSerialize for ItemId and BaseItemId::ItemId: Id, then ChangeKey when
\* there is one.
SerializeItemId(tag, v) ==
    Element(tag,
            <<<<"Id", v.id>>>>
               \o (IF v.change_key = None THEN <<>>
                   ELSE <<<<"ChangeKey", v.change_key[1]>>>>),
            None, <<>>)

\* The element written for a field that is there: its attributes, its text
\* and its child nodes come from the XmlSerialize of the field's type.
SerializeField(f, v) ==
    CASE f.kind = "text" -> Element(f.name, <<>>, Some(v), <<>>)
      [] f.kind = "bool" -> Element(f.name, <<>>, Some(BoolText(v)), <<>>)
      [] f.kind = "Body" ->
           Element(f.name,
                   <<<<"BodyType", v.body_type>>>>
                      \o (IF v.is_truncated = None THEN <<>>
                          ELSE <<<<"IsTruncated", BoolText(v.is_truncated[1])>>>>),
                   v.content, <<>>)
      [] f.kind = "ArrayOfRecipients" ->
           Element(f.name, <<>>, None, SerializeArrayOfRecipients(v))
      [] f.kind = "Recipient" -> Element(f.name, <<>>, None, SerializeRecipient(v))
      [] f.kind = "ItemId" -> SerializeItemId(f.name, v)
      [] f.kind = "ItemIds" ->
           Element(f.name, <<>>, None,
                   [i \in 1..Len(v) |-> SerializeItemId(<<"t", "ItemId">>, v[i])])

\* The attributes of the opening tag: the fields marked `attribute`, in the
\* order of declaration; a field that is None writes nothing.
SerializeAttributes(decl, v) ==
    Concat([i \in 1..Len(decl.fields) |->
              LET f == decl.fields[i]
              IN  IF f.attribute /\ v[f.field] # None
                  THEN <<<<f.name[1],
                           IF f.kind = "bool" THEN BoolText(v[f.field][1])
                           ELSE v[f.field][1]>>>>
                  ELSE <<>>])

\* As SerializeChildren, but writing an element without content for a field
\* that is None.
SerializeChildrenEmpty(decl, v) ==
    Concat([i \in 1..Len(decl.fields) |->
              LET f == decl.fields[i]
              IN  IF f.attribute THEN <<>>
                  ELSE IF v[f.field] = None THEN <<Element(f.name, <<>>, None, <<>>)>>
                  ELSE <<SerializeField(f, v[f.field][1])>>])

\* The child nodes: the other fields, in the order of declaration; a field
\* that is None writes nothing.
SerializeChildren(decl, v) ==
    Concat([i \in 1..Len(decl.fields) |->
              LET f == decl.fields[i]
              IN  IF ~f.attribute /\ v[f.field] # None
                  THEN <<SerializeField(f, v[f.field][1])>>
                  ELSE <<>>])

NotEncoded == Element(<<>>, <<>>, None, <<>>)

\* As XmlSerializeStruct, but refusing an ExtendedFieldURI that names its
\* property both by tag and by property set.
XmlSerializeStructValidated(decl, v) ==
    IF /\ decl.tag = <<"t", "ExtendedFieldURI">>
       /\ v.property_tag # None
       /\ v.property_set_id # None \/ v.distinguished_property_set_id # None
    THEN NotEncoded
    ELSE Element(decl.tag,
                 (IF decl.default_ns
                  THEN <<<<"xmlns",
                           "http://schemas.microsoft.com/exchange/services/2006/messages">>>>
                  ELSE <<>>)
                    \o SerializeAttributes(decl, v),
                 None, SerializeChildren(decl, v))

\* The derived XmlSerialize, written as an element: the default namespace,
\* the attributes, then the child nodes.
XmlSerializeStruct(decl, v) ==
    Element(decl.tag,
            (IF decl.default_ns
             THEN <<<<"xmlns",
                      "http://schemas.microsoft.com/exchange/services/2006/messages">>>>
             ELSE <<>>)
               \o SerializeAttributes(decl, v),
            None, SerializeChildren(decl, v))

\* Nothing is being encoded.
EncIdle ==
    /\ encType = "idle"
    /\ encValue = None
    /\ encPc = "idle"
    /\ encOut = NotEncoded

\* A caller holds a value of one of the types.
EncInit ==
    /\ encType \in {"ReplyToItem", "MarkAsRead", "ExtendedFieldURI"}
    /\ encValue \in StructValues(encType)
    /\ encPc = "ready"
    /\ encOut = NotEncoded

\* The value is written.
SerializeStruct ==
    /\ encPc = "ready"
    /\ encOut' = XmlSerializeStruct(StructType(encType), encValue)
    /\ encPc' = "written"
    /\ UNCHANGED <<encType, encValue>>
    /\ UNCHANGED notEncoding

-----------------------------------------------------------------------------
(* Properties of encoded structures *)

\* The fields of the type that are attributes, or that are not, and hold a
\* value in v, in the order of declaration.
PresentFields(decl, v, attribute) ==
    SelectSeq(decl.fields, LAMBDA f : f.attribute = attribute /\ v[f.field] # None)

\* The places of the attributes of e with the name given.
AttributesNamed(e, name) == {i \in 1..Len(e.attrs) : e.attrs[i][1] = name}

\* C21: an ExtendedFieldURI encodes whatever combination of its optional
\* fields it holds, as one element: every field that holds a value is one
\* attribute with that value unchanged, every field that holds none is no
\* attribute, and there is no other attribute.
C21_NoCoOccurrenceCheck ==
    (encType = "ExtendedFieldURI" /\ encPc = "written")
        => /\ encOut.tag = <<"t", "ExtendedFieldURI">>
           /\ encOut.children = <<>>
           /\ \A i \in 1..Len(ExtendedFieldURIType.fields) :
                 LET f == ExtendedFieldURIType.fields[i]
                 IN  /\ encValue[f.field] = None
                           => AttributesNamed(encOut, f.name[1]) = {}
                     /\ encValue[f.field] # None
                           => /\ Cardinality(AttributesNamed(encOut, f.name[1])) = 1
                              /\ \A k \in AttributesNamed(encOut, f.name[1]) :
                                    encOut.attrs[k][2] = encValue[f.field][1]
           /\ Len(encOut.attrs)
                 = Cardinality({i \in 1..Len(ExtendedFieldURIType.fields) :
                                   encValue[ExtendedFieldURIType.fields[i].field] # None})

C21_Witness ==
    /\ encType = "ExtendedFieldURI"
    /\ encPc = "written"
    /\ encValue.property_tag = Some("0x0E07")
    /\ encValue.property_set_id # None
    /\ encValue.property_name = Some("FlagStatus")
    /\ encValue.distinguished_property_set_id = None
    /\ encValue.property_id = None
    /\ Len(encOut.attrs) = 4
    /\ encOut.attrs[2] = <<"PropertyTag", "0x0E07">>

\* C22: what is written for a value holds, after the default namespace, one
\* attribute per attribute field that holds a value and one child element
\* per other field that holds a value, each in the order of declaration and
\* under the field's XML name; a field that holds none leaves no attribute
\* and no element, and no attribute is written without a value.
C22_AbsentFieldWritesNothing ==
    encPc = "written"
        => LET decl == StructType(encType)
               attributes == PresentFields(decl, encValue, TRUE)
               elements == PresentFields(decl, encValue, FALSE)
               offset == IF decl.default_ns THEN 1 ELSE 0
           IN  /\ Len(encOut.attrs) = offset + Len(attributes)
               /\ \A i \in 1..Len(attributes) :
                     /\ encOut.attrs[offset + i][1] = attributes[i].name[1]
                     /\ encOut.attrs[offset + i][2] # ""
               /\ Len(encOut.children) = Len(elements)
               /\ \A i \in 1..Len(elements) :
                     encOut.children[i].tag = elements[i].name

C22_Witness ==
    /\ encType = "ReplyToItem"
    /\ encPc = "written"
    /\ encValue.message_disposition = None
    /\ encValue.subject # None
    /\ encValue.cc_recipients = None
    /\ encValue.bcc_recipients = None
    /\ encValue.from = None
    /\ encValue.is_read_receipt_requested = Some(FALSE)
    /\ encValue.new_body_content # None
    /\ Len(encOut.attrs) = 1
    /\ encOut.children[1].tag = <<"t", "Subject">>
    /\ encOut.children[Len(encOut.children)].tag = <<"t", "NewBodyContent">>
    /\ encOut.children[Len(encOut.children)].text = None

-----------------------------------------------------------------------------
(* One call at a time: an envelope is decoded, a DateTime is decoded or    *)
(* encoded, a collection is decoded, a recipient list is decoded or        *)
(* encoded, a Restriction is built and encoded, an operation is named, a   *)
(* Message is built or decoded and asked for its attachments, or a request *)
(* or a property path is encoded.                                          *)

Init ==
    \/ EnvInit /\ DtIdle /\ ColIdle /\ RcpIdle /\ ResIdle /\ OpIdle /\ MsgIdle /\ EncIdle
    \/ DtInit /\ EnvIdle /\ ColIdle /\ RcpIdle /\ ResIdle /\ OpIdle /\ MsgIdle /\ EncIdle
    \/ ColInit /\ EnvIdle /\ DtIdle /\ RcpIdle /\ ResIdle /\ OpIdle /\ MsgIdle /\ EncIdle
    \/ RcpInit /\ EnvIdle /\ DtIdle /\ ColIdle /\ ResIdle /\ OpIdle /\ MsgIdle /\ EncIdle
    \/ ResInit /\ EnvIdle /\ DtIdle /\ ColIdle /\ RcpIdle /\ OpIdle /\ MsgIdle /\ EncIdle
    \/ OpInit /\ EnvIdle /\ DtIdle /\ ColIdle /\ RcpIdle /\ ResIdle /\ MsgIdle /\ EncIdle
    \/ MsgInit /\ EnvIdle /\ DtIdle /\ ColIdle /\ RcpIdle /\ ResIdle /\ OpIdle /\ EncIdle
    \/ EncInit /\ EnvIdle /\ DtIdle /\ ColIdle /\ RcpIdle /\ ResIdle /\ OpIdle /\ MsgIdle

Next ==
    \/ EnvNext
    \/ DtNext
    \/ ColNext
    \/ RcpNext
    \/ ResNext
    \/ NameOperation
    \/ MsgNext
    \/ SerializeStruct

Spec == Init /\ [][Next]_vars

-----------------------------------------------------------------------------
(* Two calls at a time: an envelope is decoded while a DateTime is decoded *)
(* or encoded, their steps interleaved in any order.                       *)

ConcurrentInit ==
    /\ EnvInit
    /\ Len(body) < MaxBody
    /\ \A i \in 1..Len(body) :
          /\ body[i].key \in {<<"@xmlns", "m">>, <<"m", "SendItemResponse">>,
                              <<"m", "FindItemResponse">>}
          /\ body[i].val \in {"uri", "p1", Malformed}
    /\ DtInit
    /\ dtText # None
          => /\ dtText[1].y = 2024 /\ dtText[1].mo = 12 /\ dtText[1].d = 31
             /\ dtText[1].designator = "T" /\ dtText[1].h = 23
             /\ dtText[1].fraction = <<>>
             /\ dtText[1].offset \in {<<>>, <<"+", 5, 30>>}
    /\ dtValue # None
          => /\ dtValue[1].year = 2024 /\ dtValue[1].nanosecond = 0
             /\ dtValue[1].offset \in {0, 19800}
    /\ ColIdle /\ RcpIdle /\ ResIdle /\ OpIdle /\ MsgIdle /\ EncIdle

ConcurrentNext ==
    \/ EnvNext
    \/ DtNext

SpecConcurrent == ConcurrentInit /\ [][ConcurrentNext]_vars

-----------------------------------------------------------------------------
(* Properties of interleaved calls *)

\* What visit_map returns for the entries of b from the i-th on, once the
\* value v has been taken, when nothing else runs.
RECURSIVE TrailingAlone(_, _, _)
TrailingAlone(b, i, v) ==
    IF i > Len(b) THEN Ok(v)
    ELSE IF StartsWithXmlns(b[i].key) THEN TrailingAlone(b, i + 1, v)
    ELSE UnexpectedElementError(b[i].key)

\* What visit_map returns for the entries of b from the i-th on, before a
\* value has been taken, when nothing else runs.
RECURSIVE LeadingAlone(_, _, _)
LeadingAlone(b, i, exp) ==
    IF i > Len(b) THEN InvalidTypeError
    ELSE IF StartsWithXmlns(b[i].key) THEN LeadingAlone(b, i + 1, exp)
    ELSE IF CleanName(b[i].key) # exp THEN UnknownElementError(b[i].key, exp)
    ELSE IF b[i].val = Malformed THEN ValueError
    ELSE TrailingAlone(b, i + 1, b[i].val)

\* What flexible_datetime returns for the string t when nothing else runs.
FlexibleAlone(t) ==
    IF OffsetDateTimeParse(t) # None
    THEN [value |-> OffsetDateTimeParse(t), error |-> None]
    ELSE IF PrimitiveDateTimeParse(t) # None
    THEN [value |-> Some(AssumeUtc(PrimitiveDateTimeParse(t)[1])), error |-> None]
    ELSE [value |-> None, error |-> Some(ParseError(t))]

\* C19: whatever the interleaving of an envelope decoding with a DateTime
\* decoding or encoding, each call ends with the result that its own input
\* gives when the call runs alone.
C19_ResultsAsAlone ==
    /\ pc = "done" => result = LeadingAlone(body, 1, expected)
    /\ (dtPc \in {"value", "failed"} /\ dtText # None)
          => /\ dtValue = FlexibleAlone(dtText[1]).value
             /\ dtError = FlexibleAlone(dtText[1]).error
    /\ dtPc = "serialized" => dtOut = Iso8601Format(dtValue[1])

\* Both calls were in flight together and both have returned.
C19_Witness ==
    /\ pc = "done"
    /\ result.kind = "Ok"
    /\ Len(body) = 2
    /\ dtPc = "failed"
    /\ dtError # None

====
